---- MODULE Spec2Model ----
(***************************************************************************)
(* The GEPA optimization subsystem of python-authoring-service:            *)
(*   app/gepa/scoring.py        the four scoring functions                 *)
(*   app/gepa/eval_harness.py   EvalHarness                                *)
(*   app/gepa/optimizer.py      generators, reflector, GEPAOptimizer       *)
(*   app/storage/profiles_repo.py, task_specs_repo.py   the file stores    *)
(*                                                                         *)
(* JSON values are tagged records: [t |-> "str", v |-> <<atoms>>],         *)
(* [t |-> "list", v |-> <<...>>], [t |-> "dict", v |-> [key |-> value]],   *)
(* [t |-> "num", v |-> n], [t |-> "bool", v |-> b], [t |-> "none"].        *)
(* A string is the concatenation of its atoms.                             *)
(* A call that can raise yields Ok(value) or Raise(error).                 *)
(* Floats are exact rationals: a sub-score is an integer number of         *)
(* 1/Unit, a total or average score an integer number of 1/One.            *)
(***************************************************************************)
EXTENDS FiniteSets, Integers, Sequences, TLC

-----------------------------------------------------------------------------
(* Bounds of the model *)

\* optimize(profile_id, max_rounds): the largest max_rounds tried
MaxRounds == 2
\* number of optimize() invocations in one behaviour
MaxRuns == 2
\* number of direct EvalHarness.evaluate calls in one behaviour
MaxEvals == 3
\* the _default_reflector calls of one chain
MaxReflections == 2
\* the direct calls made to one ProfilesRepo
MaxRepoCalls == 3
\* the requests posted to the optimize endpoint
MaxJobs == 2
\* the requests made to the status endpoint
MaxPolls == 3

-----------------------------------------------------------------------------
(* Fixed-point representation of the floats *)

Unit == 42 * 1000
\* a common multiple of the lengths 1..5 a list of results can have
AvgLcm == 3 * 4 * 5
One == 100 * Unit * AvgLcm

Min(a, b) == IF a <= b THEN a ELSE b
Max(a, b) == IF a >= b THEN a ELSE b

RECURSIVE SumSeq(_)
SumSeq(s) == IF s = <<>> THEN 0 ELSE Head(s) + SumSeq(Tail(s))

SetMax(S) == CHOOSE x \in S : \A y \in S : y <= x

Range(s) == {s[i] : i \in DOMAIN s}

-----------------------------------------------------------------------------
(* JSON values *)

Str(x) == [t |-> "str", v |-> <<x>>]
StrCat(a, b) == [t |-> "str", v |-> a.v \o b.v]
Lst(s) == [t |-> "list", v |-> s]
Dct(f) == [t |-> "dict", v |-> f]
None == [t |-> "none"]
EmptyMap == [k \in {} |-> None]
EmptyDict == Dct(EmptyMap)

IsDict(x) == x.t = "dict"
IsList(x) == x.t = "list"

\* d.get(k, default) on a dict value
Get(d, k, default) == IF k \in DOMAIN d.v THEN d.v[k] ELSE default
\* k in d
Has(d, k) == k \in DOMAIN d.v
\* Python truth value
Truthy(x) ==
    CASE x.t = "none" -> FALSE
      [] x.t = "str"  -> \E i \in DOMAIN x.v : x.v[i] # ""
      [] x.t = "list" -> Len(x.v) > 0
      [] x.t = "dict" -> DOMAIN x.v # {}
      [] x.t = "num"  -> x.v # 0
      [] x.t = "bool" -> x.v

\* the outcome of a call: the value it returns or the exception it raises
Ok(x) == [raised |-> FALSE, v |-> x]
Raise(e) == [raised |-> TRUE, error |-> e]

\* hash(x) succeeds: lists and dicts are unhashable
Hashable(x) == x.t \notin {"list", "dict"}
\* the message of the TypeError of `x in <set>` for an unhashable x
Unhashable(x) == [type |-> "TypeError", msg |-> "unhashable type", of |-> x.t]

\* len(x) succeeds: numbers, booleans and None have no len()
HasLen(x) == x.t \in {"list", "dict", "str"}
\* the message of the TypeError of len(x)
NoLen(x) == [type |-> "TypeError", msg |-> "object has no len()", of |-> x.t]
\* len(x) of a list, a dict (its keys) or a string (its characters)
PyLen(x) ==
    CASE x.t = "list" -> Len(x.v)
      [] x.t = "dict" -> Cardinality(DOMAIN x.v)
      [] x.t = "str"  -> SumSeq([i \in DOMAIN x.v |-> Len(x.v[i])])

\* decimal rendering of a small natural number, as str(i) gives it
IntStr(i) == Str(<<"0", "1", "2", "3", "4", "5", "6", "7", "8", "9">>[i + 1])

-----------------------------------------------------------------------------
(* app/gepa/scoring.py *)

\* a table that also recognizes "invalid_op"
VALID_OPS_Open == {Str("goto"), Str("act_cached"), Str("act_template"), Str("extract"),
                   Str("choose"), Str("checkpoint"), Str("wait"), Str("invalid_op")}

VALID_OPS == {Str("goto"), Str("act_cached"), Str("act_template"), Str("extract"),
              Str("choose"), Str("checkpoint"), Str("wait")}

REQUIRED_FIELDS(op) ==
    CASE op = Str("goto")         -> {"args"}
      [] op = Str("act_cached")   -> {"targetKey"}
      [] op = Str("act_template") -> {"targetKey"}
      [] op = Str("extract")      -> {"targetKey"}
      [] op = Str("choose")       -> {"args"}
      [] op = Str("checkpoint")   -> {"args"}
      [] op = Str("wait")         -> {"args"}
      [] OTHER                    -> {}

\* parts[0] + "".join(p.capitalize() for p in parts[1:]) with parts = snake.split("_"):
\* a key without an underscore is returned as it is
_camel_case(snake) ==
    CASE snake = "target_key" -> "targetKey"
      [] OTHER                -> snake

\* k * 1.0 / n as a sub-score
Ratio(k, n) == (k * Unit) \div n

\* the number of list positions / dict keys satisfying P
CountSeq(s, P(_)) == Cardinality({i \in 1..Len(s) : P(s[i])})
CountMap(f, P(_)) == Cardinality({k \in DOMAIN f : P(f[k])})

StepHasIdOp(step) == IsDict(step) /\ Has(step, "id") /\ Has(step, "op")

ActionEntryValid(entry) ==
    /\ IsDict(entry) /\ Has(entry, "preferred") /\ Has(entry, "instruction")
    /\ LET pref == entry.v["preferred"]
       IN  IsDict(pref) /\ Has(pref, "selector") /\ Has(pref, "method")

PolicyEntryValid(pol) == IsDict(pol) /\ Has(pol, "hard") /\ Has(pol, "pick")

\* the checks list of score_schema_validity, in the order the code appends them
SchemaChecks(recipe) ==
    LET workflow == Get(recipe, "workflow", None)
        wfChecks ==
            IF IsDict(workflow)
            THEN LET steps == Get(workflow, "steps", Lst(<<>>))
                     stepChecks ==
                         IF IsList(steps) /\ Len(steps.v) > 0
                         THEN <<Unit, Ratio(CountSeq(steps.v, StepHasIdOp), Len(steps.v))>>
                         ELSE <<0, 0>>
                 IN  <<Unit>> \o stepChecks
                       \o <<IF Has(workflow, "id") THEN Unit ELSE 0>>
            ELSE <<0, 0, 0, 0>>
        actions == Get(recipe, "actions", None)
        actChecks ==
            IF IsDict(actions)
            THEN <<Unit, IF Truthy(actions)
                         THEN Ratio(CountMap(actions.v, ActionEntryValid),
                                    Cardinality(DOMAIN actions.v))
                         ELSE Unit>>
            ELSE <<0, 0>>
        selectors == Get(recipe, "selectors", None)
        selChecks == <<IF IsDict(selectors) THEN Unit ELSE 0>>
        policies == Get(recipe, "policies", None)
        polChecks ==
            IF IsDict(policies)
            THEN <<Unit, IF Truthy(policies)
                         THEN Ratio(CountMap(policies.v, PolicyEntryValid),
                                    Cardinality(DOMAIN policies.v))
                         ELSE Unit>>
            ELSE <<0, 0>>
        fingerprints == Get(recipe, "fingerprints", None)
        fpChecks == <<IF IsDict(fingerprints) THEN Unit ELSE 0>>
    IN  wfChecks \o actChecks \o selChecks \o polChecks \o fpChecks

score_schema_validity(recipe) ==
    LET checks == SchemaChecks(recipe)
    IN  IF Len(checks) > 0 THEN SumSeq(checks) \div Len(checks) ELSE 0

\* one step's score in score_dry_run_success
DryRunStep(step) ==
    IF ~IsDict(step) THEN 0
    ELSE LET op == Get(step, "op", Str(""))
         IN  IF op \notin VALID_OPS THEN 0
             ELSE LET required == REQUIRED_FIELDS(op)
                      present_required ==
                          Cardinality({f \in required :
                              \/ Get(step, f, None) # None
                              \/ Get(step, _camel_case(f), None) # None})
                      reqScore ==
                          IF required # {}
                          THEN (3 * Unit * present_required) \div (10 * Cardinality(required))
                          ELSE (3 * Unit) \div 10
                      idScore == IF Has(step, "id") THEN (2 * Unit) \div 10 ELSE 0
                      urlScore ==
                          IF op = Str("goto")
                          THEN LET args == Get(step, "args", EmptyDict)
                               IN  IF IsDict(args) /\ Has(args, "url")
                                   THEN Unit \div 10 ELSE 0
                          ELSE Unit \div 10
                  IN  (4 * Unit) \div 10 + reqScore + idScore + urlScore

\* `op in VALID_OPS` and `op in ops_needing_target` hash the op of a dict step
OpLookupRaises(step) == IsDict(step) /\ ~Hashable(Get(step, "op", Str("")))

\* the first step of the list whose op lookup raises
FirstRaising(steps) == CHOOSE i \in 1..Len(steps) :
    OpLookupRaises(steps[i]) /\ \A j \in 1..(i - 1) : ~OpLookupRaises(steps[j])

score_dry_run_success(workflow) ==
    LET steps == Get(workflow, "steps", Lst(<<>>))
    IN  IF ~IsList(steps) \/ Len(steps.v) = 0 THEN Ok(0)
        ELSE IF \E i \in 1..Len(steps.v) : OpLookupRaises(steps.v[i])
        THEN Raise(Unhashable(Get(steps.v[FirstRaising(steps.v)], "op", Str(""))))
        ELSE Ok(SumSeq([i \in 1..Len(steps.v) |-> DryRunStep(steps.v[i])])
                  \div Len(steps.v))

ops_needing_target == {Str("act_cached"), Str("act_template"), Str("extract")}
ops_needing_expect == {Str("act_cached"), Str("act_template"), Str("extract"), Str("goto")}

\* one step's score in score_replay_determinism
ReplayStep(step) ==
    IF ~IsDict(step) THEN 0
    ELSE LET op == Get(step, "op", Str(""))
             hasTarget == \/ Truthy(Get(step, "targetKey", None))
                          \/ Truthy(Get(step, "target_key", None))
             targetPenalty ==
                 IF op \in ops_needing_target /\ ~hasTarget THEN (4 * Unit) \div 10 ELSE 0
             expectPenalty ==
                 IF op \in ops_needing_expect /\ ~Truthy(Get(step, "expect", None))
                 THEN (3 * Unit) \div 10 ELSE 0
             messagePenalty ==
                 IF op = Str("checkpoint")
                 THEN LET args == Get(step, "args", EmptyDict)
                      IN  IF ~IsDict(args) \/ ~Has(args, "message")
                          THEN (2 * Unit) \div 10 ELSE 0
                 ELSE 0
         IN  Max(0, Unit - targetPenalty - expectPenalty - messagePenalty)

score_replay_determinism(workflow) ==
    LET steps == Get(workflow, "steps", Lst(<<>>))
    IN  IF ~IsList(steps) \/ Len(steps.v) = 0 THEN Ok(0)
        ELSE IF \E i \in 1..Len(steps.v) : OpLookupRaises(steps.v[i])
        THEN Raise(Unhashable(Get(steps.v[FirstRaising(steps.v)], "op", Str(""))))
        ELSE Ok(SumSeq([i \in 1..Len(steps.v) |-> ReplayStep(steps.v[i])])
                  \div Len(steps.v))

\* a test that takes every mapping step for a step of the named op
StepOpIsAny(step, name) == IsDict(step)

\* isinstance(s, dict) and s.get("op") == name
StepOpIs(step, name) == IsDict(step) /\ Get(step, "op", None) = Str(name)

score_token_cost(recipe) ==
    LET workflow == Get(recipe, "workflow", EmptyDict)
        steps == IF IsDict(workflow) THEN Get(workflow, "steps", Lst(<<>>)) ELSE Lst(<<>>)
    IN  IF ~Truthy(steps) THEN Ok(0)
        ELSE IF ~HasLen(steps) THEN Raise(NoLen(steps))
        ELSE LET step_count == PyLen(steps)
                 \* `for s in steps`: the keys of a dict and the characters of a
                 \* string are no dicts; only the elements of a list can count
                 iterated == IF IsList(steps) THEN steps.v ELSE <<>>
                 IsExtract(s) == StepOpIs(s, "extract")
                 IsChoose(s) == StepOpIs(s, "choose")
                 IsCheckpoint(s) == StepOpIs(s, "checkpoint")
                 step_cost == Min(Ratio(step_count, 20), Unit)
                 extract_cost == Min(Ratio(CountSeq(iterated, IsExtract), 5), Unit)
                 choose_cost == Min(Ratio(CountSeq(iterated, IsChoose), 3), Unit)
                 checkpoint_cost == Min(Ratio(CountSeq(iterated, IsCheckpoint), 5), Unit)
                 cost == (4 * step_cost + 3 * extract_cost + 2 * choose_cost
                            + checkpoint_cost) \div 10
             IN  Ok(Min(Max(cost, 0), Unit))

-----------------------------------------------------------------------------
(* app/gepa/eval_harness.py *)

\* 0.82 in 1/One
PROMOTION_THRESHOLD == 82 * Unit * AvgLcm

\* a clamp that forgets the lower bound
ClampUpper(total) == Min(One, total)

\* line 58: max(0.0, min(1.0, total))
Clamp(total) == Max(0, Min(One, total))

\* EvalHarness.evaluate, lines 45-57: the four sub-scores and the clamped total;
\* an exception of a scoring function leaves evaluate
Scores(recipe_json) ==
    LET workflow == Get(recipe_json, "workflow", EmptyDict)
        workflow_data == IF IsDict(workflow) THEN workflow ELSE EmptyDict
        sv == score_schema_validity(recipe_json)
        dr == score_dry_run_success(workflow_data)
        rd == score_replay_determinism(workflow_data)
        tc == score_token_cost(recipe_json)
        raw == (45 * dr.v + 25 * sv + 20 * rd.v - 10 * tc.v) * AvgLcm
    IN  IF dr.raised THEN dr
        ELSE IF rd.raised THEN rd
        ELSE IF tc.raised THEN tc
        ELSE [raised |-> FALSE, schema_validity |-> sv, dry_run_success |-> dr.v,
              replay_determinism |-> rd.v, token_cost |-> tc.v,
              total_score |-> Clamp(raw)]

\* an EvalResult that passes only above the threshold
EvalResultStrict(sc, spec_id, threshold) ==
    [schema_validity |-> sc.schema_validity, dry_run_success |-> sc.dry_run_success,
     replay_determinism |-> sc.replay_determinism, token_cost |-> sc.token_cost,
     total_score |-> sc.total_score, passed |-> sc.total_score > threshold,
     details |-> [task_spec_id |-> spec_id, threshold |-> threshold]]

\* EvalHarness.evaluate, lines 59-70: the EvalResult built from the scores, for
\* self.threshold = threshold; spec_id is task_spec.get("id") or None
EvalResult(sc, spec_id, threshold) ==
    [schema_validity |-> sc.schema_validity, dry_run_success |-> sc.dry_run_success,
     replay_determinism |-> sc.replay_determinism, token_cost |-> sc.token_cost,
     total_score |-> sc.total_score, passed |-> sc.total_score >= threshold,
     details |-> [task_spec_id |-> spec_id, threshold |-> threshold]]

\* task_spec.get("id") if task_spec else None
SpecId(task_spec) == IF Truthy(task_spec) THEN Get(task_spec, "id", None) ELSE None

\* EvalHarness.evaluate of a harness whose threshold is `threshold`
evaluate(recipe_json, task_spec, threshold) ==
    LET sc == Scores(recipe_json)
    IN  IF sc.raised THEN sc ELSE Ok(EvalResult(sc, SpecId(task_spec), threshold))

\* an average that returns the first result's total
average_score_first(results) ==
    IF Len(results) = 0 THEN 0 ELSE results[1].total_score

\* EvalHarness.average_score over a sequence of EvalResult
average_score(results) ==
    IF Len(results) = 0 THEN 0
    ELSE SumSeq([i \in 1..Len(results) |-> results[i].total_score]) \div Len(results)

-----------------------------------------------------------------------------
(* app/gepa/optimizer.py: generators and reflector *)

Num(n) == [t |-> "num", v |-> n]
Bool(b) == [t |-> "bool", v |-> b]

\* d[k] = x on a dict value
Put(d, k, x) == Dct([j \in DOMAIN d.v \cup {k} |-> IF j = k THEN x ELSE d.v[j]])

\* x in lst, for a list value
InList(x, lst) == \E i \in DOMAIN lst.v : lst.v[i] = x

DefaultExpect == Dct([kind |-> Str("selector_visible"), value |-> Str("body")])

\* the step built from procedure entry ps at 0-based position i
ProcStep(i, ps) ==
    LET step_i == StrCat(Str("step_"), IntStr(i))
    IN  Dct([id |-> step_i,
             op |-> Get(ps, "op", Str("act_cached")),
             targetKey |-> Get(ps, "targetKey", step_i),
             expect |-> Get(ps, "expect", Lst(<<DefaultExpect>>))])

_default_recipe_generator(profile, task_spec) ==
    LET goal == Get(task_spec, "goal", Str("default task"))
        domain == Get(task_spec, "domain", Str("example.com"))
        open == Dct([id |-> Str("open"), op |-> Str("goto"),
                     args |-> Dct([url |-> StrCat(Str("https://"), domain)]),
                     expect |-> Lst(<<Dct([kind |-> Str("url_contains"),
                                           value |-> domain])>>)])
        proc_steps == Get(task_spec, "procedure_steps", Lst(<<>>))
        procs == [i \in 1..Len(proc_steps.v) |-> ProcStep(i - 1, proc_steps.v[i])]
        checkpoint ==
            Dct([id |-> Str("checkpoint_end"), op |-> Str("checkpoint"),
                 args |-> Dct([message |->
                     StrCat(StrCat(Str("Completed: "), goal),
                            Str(". Verify results?"))])])
        steps == <<open>> \o procs \o <<checkpoint>>
    IN  Dct([workflow |-> Dct([id |-> StrCat(domain, Str("_flow")),
                               steps |-> Lst(steps)]),
             actions |-> EmptyDict, selectors |-> EmptyDict,
             policies |-> EmptyDict, fingerprints |-> EmptyDict])

\* the hinted rewrite of one step (targetKey / expect added when the key is missing)
AddTargetAndExpect(step) ==
    LET op == Get(step, "op", Str(""))
        s1 == IF op \in {Str("act_cached"), Str("act_template"), Str("extract")}
                 /\ ~Has(step, "targetKey")
              THEN Put(step, "targetKey", StrCat(step.v["id"], Str(".action")))
              ELSE step
    IN  IF op \in {Str("act_cached"), Str("act_template"), Str("extract"), Str("goto")}
           /\ ~Has(s1, "expect")
        THEN Put(s1, "expect", Lst(<<DefaultExpect>>))
        ELSE s1

KeepStep(s) == Get(s, "op", None) # Str("choose") \/ Get(s, "id", None) = Str("choose")

\* [s for s in steps if s.get("op") != "choose" or s.get("id") in ("choose",)]
RECURSIVE KeepSteps(_)
KeepSteps(steps) ==
    IF steps = <<>> THEN <<>>
    ELSE IF KeepStep(Head(steps)) THEN <<Head(steps)>> \o KeepSteps(Tail(steps))
         ELSE KeepSteps(Tail(steps))

_improved_recipe_generator(profile, task_spec) ==
    LET recipe == _default_recipe_generator(profile, task_spec)
        hints == Get(profile, "optimization_hints", Lst(<<>>))
        steps0 == recipe.v["workflow"].v["steps"].v
        steps1 == IF InList(Str("add_targetKey_and_expect_to_all_steps"), hints)
                  THEN [i \in 1..Len(steps0) |-> AddTargetAndExpect(steps0[i])]
                  ELSE steps0
        steps2 == IF InList(Str("reduce_extract_and_choose_steps"), hints)
                  THEN KeepSteps(steps1)
                  ELSE steps1
    IN  Put(recipe, "workflow", Put(recipe.v["workflow"], "steps", Lst(steps2)))

\* appends that take a sub-score of exactly 0.8, or a cost of exactly 0.5, as weak
ReflectedHintsInclusive(profile, eval_result) ==
    LET hints == Get(profile, "optimization_hints", Lst(<<>>)).v
    IN  hints
        \o (IF eval_result.schema_validity <= (8 * Unit) \div 10
            THEN <<Str("ensure_all_schema_fields")>> ELSE <<>>)
        \o (IF eval_result.dry_run_success <= (8 * Unit) \div 10
            THEN <<Str("validate_op_types_and_required_fields")>> ELSE <<>>)
        \o (IF eval_result.replay_determinism <= (8 * Unit) \div 10
            THEN <<Str("add_targetKey_and_expect_to_all_steps")>> ELSE <<>>)
        \o (IF eval_result.token_cost >= (5 * Unit) \div 10
            THEN <<Str("reduce_extract_and_choose_steps")>> ELSE <<>>)

\* the hints after the appends of _default_reflector, as a list
ReflectedHints(profile, eval_result) ==
    LET hints == Get(profile, "optimization_hints", Lst(<<>>)).v
    IN  hints
        \o (IF eval_result.schema_validity < (8 * Unit) \div 10
            THEN <<Str("ensure_all_schema_fields")>> ELSE <<>>)
        \o (IF eval_result.dry_run_success < (8 * Unit) \div 10
            THEN <<Str("validate_op_types_and_required_fields")>> ELSE <<>>)
        \o (IF eval_result.replay_determinism < (8 * Unit) \div 10
            THEN <<Str("add_targetKey_and_expect_to_all_steps")>> ELSE <<>>)
        \o (IF eval_result.token_cost > (5 * Unit) \div 10
            THEN <<Str("reduce_extract_and_choose_steps")>> ELSE <<>>)

\* list(set(hints)): the distinct elements in any order
ListOfSet(hints) ==
    LET S == {hints[i] : i \in DOMAIN hints}
    IN  {o \in [1..Cardinality(S) -> S] : \A i, j \in DOMAIN o : i # j => o[i] # o[j]}

\* the profiles _default_reflector can return
_default_reflector(profile, eval_result, recipe) ==
    {Put(Put(profile, "optimization_hints", Lst(o)),
         "last_score", Num(eval_result.total_score)) :
       o \in ListOfSet(ReflectedHints(profile, eval_result))}

-----------------------------------------------------------------------------
(* app/storage/profiles_repo.py                                            *)
(* A file of the profiles directory is named by its stem.  A stem is       *)
(* [base, vs]: the string base followed by "_v<n>" for each n of vs, so    *)
(* that "a_v1" is the same stem whether it is read as the profile id       *)
(* "a_v1" or as version 1 of the profile id "a".                           *)

Stem(base, vs) == [base |-> base, vs |-> vs]

\* the profile id as a str value
IdStr(pid) ==
    [t |-> "str",
     v |-> <<pid.base>> \o [i \in 1..(2 * Len(pid.vs)) |->
                               IF i % 2 = 1 THEN "_v"
                               ELSE IntStr(pid.vs[i \div 2]).v[1]]]

\* ProfilesRepo._path: base_dir / f"{profile_id}.json"
_path(profile_id) == profile_id

\* ProfilesRepo.get: the parsed file, or None
RepoGet(fs, profile_id) ==
    IF _path(profile_id) \in DOMAIN fs THEN fs[_path(profile_id)] ELSE None

\* ProfilesRepo.save: the directory after write_text(json.dumps(data))
RepoSave(fs, profile_id, data) ==
    [k \in DOMAIN fs \cup {_path(profile_id)} |->
        IF k = _path(profile_id) THEN data ELSE fs[k]]

\* f"{profile_id}_v{version}"
PromotedId(profile_id, version) == Stem(profile_id.base, Append(profile_id.vs, version))

\* ProfilesRepo.list_versions: the N of every file "<profile_id>_v<N>.json"
RepoListVersions(fs, profile_id) ==
    {k.vs[Len(k.vs)] : k \in {j \in DOMAIN fs :
        /\ j.base = profile_id.base
        /\ Len(j.vs) = Len(profile_id.vs) + 1
        /\ SubSeq(j.vs, 1, Len(profile_id.vs)) = profile_id.vs}}

\* ProfilesRepo.list: the stems that do not end in "_v<digits>"
RepoList(fs) == {k \in DOMAIN fs : k.vs = <<>>}

\* ProfilesRepo.delete: the directory after unlink(), and whether a file was there
RepoDelete(fs, profile_id) == [k \in DOMAIN fs \ {_path(profile_id)} |-> fs[k]]
RepoDeleted(fs, profile_id) == _path(profile_id) \in DOMAIN fs

\* a copy that refuses to replace a snapshot that exists
PromoteCopiedExclusive(fs, profile_id, version) ==
    IF PromotedId(profile_id, version) \in DOMAIN fs THEN fs
    ELSE RepoSave(fs, PromotedId(profile_id, version), fs[_path(profile_id)])

\* ProfilesRepo.promote, first half: shutil.copy2(source, dest)
PromoteCopied(fs, profile_id, version) ==
    RepoSave(fs, PromotedId(profile_id, version), fs[_path(profile_id)])

\* a stamp that lands on the current record instead of the snapshot
PromoteStampedCurrent(fs, profile_id, version) ==
    RepoSave(fs, profile_id,
             Put(Put(fs[_path(profile_id)], "version", Num(version)), "promoted", Bool(TRUE)))

\* a stamp that writes the version and leaves the promoted flag as copied
PromoteStampedVersionOnly(fs, profile_id, version) ==
    LET dest == PromotedId(profile_id, version)
    IN  RepoSave(fs, dest, Put(fs[_path(dest)], "version", Num(version)))

\* ProfilesRepo.promote, second half: re-read dest, stamp it, write it back
PromoteStamped(fs, profile_id, version) ==
    LET dest == PromotedId(profile_id, version)
        data == Put(Put(fs[_path(dest)], "version", Num(version)), "promoted", Bool(TRUE))
    IN  RepoSave(fs, dest, data)

-----------------------------------------------------------------------------
(* Inputs *)

KeyA == Stem("a", <<>>)
\* the profile id "a_v1"
KeyA1 == PromotedId(KeyA, 1)
ProfileIds == {KeyA, KeyA1}

\* EvalHarness(threshold=...): 0.0, the default 0.82, and 0.999
HighThreshold == 999 * (One \div 1000)
Thresholds == {0, PROMOTION_THRESHOLD, HighThreshold}

\* the spec optimize() substitutes for an empty bank
SyntheticSpec == Dct([id |-> Str("default"), goal |-> Str("test"),
                      domain |-> Str("example.com")])

SpecA == Dct([id |-> Str("spec-a"), goal |-> Str("task a"), domain |-> Str("a.com")])
SpecB == Dct([id |-> Str("spec-b"), goal |-> Str("task b"), domain |-> Str("b.com"),
              procedure_steps |-> Lst(<<Dct([op |-> Str("extract")]),
                                        Dct([op |-> Str("choose")])>>)])
\* a spec whose procedure has a step with an op the scoring does not recognize
SpecC == Dct([id |-> Str("spec-c"), goal |-> Str("task c"), domain |-> Str("c.com"),
              procedure_steps |-> Lst(<<Dct([op |-> Str("hover")])>>)])
\* what TaskSpecsRepo.get_specs() can return
Banks == {<<>>, <<SpecA, SpecB>>, <<SpecC>>}

\* recipes a caller-supplied generator returns
PerfectRecipe ==
    Dct([workflow |-> Dct([id |-> Str("perfect"),
            steps |-> Lst(<<
                Dct([id |-> Str("open"), op |-> Str("goto"),
                     args |-> Dct([url |-> Str("https://example.com")]),
                     expect |-> Lst(<<Dct([kind |-> Str("url_contains"),
                                           value |-> Str("example.com")])>>)]),
                Dct([id |-> Str("action"), op |-> Str("act_cached"),
                     targetKey |-> Str("btn.click"),
                     expect |-> Lst(<<Dct([kind |-> Str("selector_visible"),
                                           value |-> Str("#result")])>>)])>>)]),
         actions |-> EmptyDict, selectors |-> EmptyDict,
         policies |-> EmptyDict, fingerprints |-> EmptyDict])
InvalidOpRecipe ==
    Dct([workflow |-> Dct([steps |-> Lst(<<Dct([op |-> Str("invalid_op")])>>)])])

\* a recipe whose only step has a list as its op
UnhashableOpRecipe ==
    Dct([workflow |-> Dct([steps |-> Lst(<<Dct([op |-> Lst(<<Str("goto")>>)])>>)])])

\* the recipe of tests/test_eval_harness.py
HighQualityRecipe ==
    Dct([workflow |-> Dct([id |-> Str("test_flow"),
            steps |-> Lst(<<
                Dct([id |-> Str("open"), op |-> Str("goto"),
                     args |-> Dct([url |-> Str("https://example.com")]),
                     expect |-> Lst(<<Dct([kind |-> Str("url_contains"),
                                           value |-> Str("example.com")])>>)]),
                Dct([id |-> Str("login"), op |-> Str("act_cached"),
                     targetKey |-> Str("login.submit"),
                     expect |-> Lst(<<Dct([kind |-> Str("url_contains"),
                                           value |-> Str("/dashboard")])>>)]),
                Dct([id |-> Str("done"), op |-> Str("checkpoint"),
                     args |-> Dct([message |-> Str("Done?")])])>>)]),
         actions |-> EmptyDict, selectors |-> EmptyDict,
         policies |-> EmptyDict, fingerprints |-> EmptyDict])

\* recipes with malformed content
WorkflowOf(steps) == Dct([workflow |-> Dct([steps |-> steps])])
StepsNumberRecipe == WorkflowOf(Num(5))
TwentyKeys == {"k01", "k02", "k03", "k04", "k05", "k06", "k07", "k08", "k09", "k10",
               "k11", "k12", "k13", "k14", "k15", "k16", "k17", "k18", "k19", "k20"}
StepsMappingRecipe == WorkflowOf(Dct([k \in TwentyKeys |-> Num(1)]))
NonDictStepsRecipe == WorkflowOf(Lst(<<Num(1), Str("x"), None, Lst(<<Num(1)>>)>>))
BadArgsRecipe ==
    WorkflowOf(Lst(<<Dct([op |-> Str("goto"), args |-> Num(5)]),
                     Dct([op |-> Str("checkpoint"), args |-> Str("m")])>>))
BadEntriesRecipe ==
    Dct([workflow |-> EmptyDict,
         actions |-> Dct([a |-> Num(5),
                          b |-> Dct([preferred |-> Num(5), instruction |-> Num(1)])]),
         selectors |-> Num(5),
         policies |-> Dct([p |-> Lst(<<Num(1)>>)]),
         fingerprints |-> None])

\* the recipes handed to EvalHarness.evaluate
RecipeInputs ==
    {EmptyDict, HighQualityRecipe, InvalidOpRecipe, UnhashableOpRecipe,
     StepsNumberRecipe, StepsMappingRecipe,
     NonDictStepsRecipe, BadArgsRecipe, BadEntriesRecipe}

\* the (recipe, task_spec) arguments of the evaluate calls: every recipe without a
\* task spec, one of them with one, one with an empty one
EvalInputs ==
    {[recipe |-> rc, task_spec |-> None] : rc \in RecipeInputs}
      \cup {[recipe |-> HighQualityRecipe, task_spec |-> SpecA],
            [recipe |-> InvalidOpRecipe, task_spec |-> EmptyDict]}

\* profiles handed to _default_reflector: without hints, with a hint an earlier
\* reflection left, with a hint of another origin and a version
ReflectorProfiles ==
    {Dct([id |-> Str("a"), version |-> Num(0)]),
     Dct([id |-> Str("a"),
          optimization_hints |-> Lst(<<Str("ensure_all_schema_fields")>>)]),
     Dct([id |-> Str("a"), version |-> Num(3),
          optimization_hints |-> Lst(<<Str("custom_hint")>>)])}

\* the EvalResult of the default harness with these four sub-scores
ResultWith(sv, dr, rd, tc) ==
    EvalResult([schema_validity |-> sv, dry_run_success |-> dr,
                replay_determinism |-> rd, token_cost |-> tc,
                total_score |-> Clamp((45 * dr + 25 * sv + 20 * rd - 10 * tc) * AvgLcm)],
               None, PROMOTION_THRESHOLD)

\* results handed to _default_reflector: nothing weak, every sub-score exactly on
\* its limit (0.8, cost 0.5), and each sub-score just beyond its limit alone
ReflectorResults ==
    LET limit == (8 * Unit) \div 10
        half == (5 * Unit) \div 10
    IN  {ResultWith(Unit, Unit, Unit, 0),
         ResultWith(limit, limit, limit, half),
         ResultWith(limit - 1, Unit, Unit, 0),
         ResultWith(Unit, limit - 1, Unit, 0),
         ResultWith(Unit, Unit, limit - 1, 0),
         ResultWith(Unit, Unit, Unit, half + 1)}

\* steps handed to score_dry_run_success: every combination of an op (absent,
\* recognized, unrecognized, of another type), an id, an args value and a target
\* key under either spelling
Absent == [t |-> "absent"]
PutIf(d, k, x) == IF x = Absent THEN d ELSE Put(d, k, x)
OpInputs ==
    VALID_OPS \cup {Absent, Str("invalid_op"), Str(""), None, Num(1), Lst(<<Str("goto")>>)}
IdInputs == {Absent, Str("s")}
ArgsInputs == {Absent, None, EmptyDict, Dct([url |-> Str("https://example.com")])}
TargetInputs == {Absent, Str("x")}
MakeStep(op, id, args, targetKey, target_key) ==
    PutIf(PutIf(PutIf(PutIf(PutIf(EmptyDict, "op", op), "id", id), "args", args),
                "targetKey", targetKey), "target_key", target_key)
StepInputs ==
    {MakeStep(op, id, args, tk, sk) :
        op \in OpInputs, id \in IdInputs, args \in ArgsInputs,
        tk \in TargetInputs, sk \in TargetInputs}
\* a few steps to pair
PairedSteps ==
    {MakeStep(Str("goto"), Str("s"), Dct([url |-> Str("https://example.com")]), Absent, Absent),
     MakeStep(Str("extract"), Absent, Absent, Str("x"), Absent),
     MakeStep(Str("wait"), Absent, Absent, Absent, Absent),
     MakeStep(Str("invalid_op"), Str("s"), EmptyDict, Str("x"), Absent)}
\* the workflows handed to score_dry_run_success
WorkflowInputs ==
    {Dct([steps |-> Lst(<<st>>)]) : st \in StepInputs}
      \cup {Dct([steps |-> Lst(<<a, b>>)]) : a \in PairedSteps, b \in PairedSteps}
      \cup {EmptyDict, Dct([steps |-> Lst(<<>>)]), Dct([steps |-> None])}

\* profiles handed to the generators: without the hints key, with no hint, with
\* each of the two hints the improved generator reads, with both, with another
GeneratorProfiles ==
    LET WithHints(hs) == Dct([id |-> Str("a"), optimization_hints |-> Lst(hs)])
    IN  {Dct([id |-> Str("a")]),
         WithHints(<<>>),
         WithHints(<<Str("add_targetKey_and_expect_to_all_steps")>>),
         WithHints(<<Str("reduce_extract_and_choose_steps")>>),
         WithHints(<<Str("reduce_extract_and_choose_steps"),
                     Str("add_targetKey_and_expect_to_all_steps")>>),
         WithHints(<<Str("ensure_all_schema_fields")>>)}

\* procedure steps of a task spec: an op (or none), and a targetKey and an expect
\* that are omitted, null, empty or given
ProcedureSteps ==
    {PutIf(PutIf(PutIf(EmptyDict, "op", op), "targetKey", tk), "expect", ex) :
        op \in {Absent, Str("act_cached"), Str("act_template"), Str("extract"),
                Str("choose"), Str("goto")},
        tk \in {Absent, None, Str(""), Str("login.submit")},
        ex \in {Absent, None, Lst(<<>>),
                Lst(<<Dct([kind |-> Str("url_contains"), value |-> Str("/done")])>>)}}

\* task specs handed to the generators: without a procedure, with one step, and
\* with a choose step among others
GeneratorSpecs ==
    {SyntheticSpec}
      \cup {Dct([id |-> Str("spec-p"), domain |-> Str("p.com"),
                 procedure_steps |-> Lst(<<ps>>)]) : ps \in ProcedureSteps}
      \cup {Dct([id |-> Str("spec-q"), goal |-> Str("task q"),
                 procedure_steps |->
                     Lst(<<Dct([op |-> Str("choose")]), Dct([op |-> Str("extract")]),
                           Dct([op |-> Str("choose"), targetKey |-> Str("menu")])>>)])}

\* the profile ids, the records and the versions handed to a ProfilesRepo directly
KeyB == Stem("b", <<>>)
RepoIds == {KeyA, KeyA1, KeyB}
RepoRecords(profile_id) ==
    {Dct([id |-> IdStr(profile_id)]),
     Dct([id |-> IdStr(profile_id), version |-> Num(7), promoted |-> Bool(FALSE),
          optimization_hints |-> Lst(<<Str("custom_hint")>>)])}
RepoVersions == {1, 2}

\* What a caller-supplied generator returns for the n task specs of one round:
\* the perfect recipe for each, the invalid one for each, or the invalid one for
\* all but the last.
CustomRound(n, kind) ==
    [i \in 1..n |->
        CASE kind = "perfect" -> PerfectRecipe
          [] kind = "invalid" -> InvalidOpRecipe
          [] kind = "unhashable" -> IF i = n THEN UnhashableOpRecipe ELSE PerfectRecipe
          [] OTHER -> IF i = n THEN PerfectRecipe ELSE InvalidOpRecipe]
CustomRounds(n) ==
    {CustomRound(n, kind) : kind \in {"perfect", "invalid", "mixed", "unhashable"}}

Runners == {1, 2}

\* the max_rounds arguments tried: no round, one round, the most rounds
RoundChoices == {0, 1, MaxRounds}

-----------------------------------------------------------------------------
(* State *)

VARIABLES
    files,         \* the profiles directory: stem -> parsed JSON content
    bank,          \* what TaskSpecsRepo.get_specs() returns
    harness_threshold,  \* eval_harness.threshold of the optimizer
    generator,     \* "default": recipe_generator is None; "custom": caller-supplied
    pc,            \* pc[r]: where invocation r of optimize() stands
    cfg,           \* cfg[r]: the arguments profile_id and max_rounds
    profile,       \* optimize(): the local profile
    task_specs,    \* optimize(): the local task_specs
    round_num,     \* optimize(): the loop variable
    history,       \* optimize(): history
    best_score,    \* optimize(): best_score
    best_recipe,   \* optimize(): best_recipe
    next_version,  \* optimize(): next_version, once list_versions has been read
    result,        \* the OptimizationResult returned or the exception raised, None before
    runs,          \* invocations started so far
    reflected,     \* history variable: the rounds in which r called the reflector
    totals,        \* history variable: per round of r, the total_score of each result
    seen,          \* history variable: list_versions(profile_id) as r read it
    start,         \* history variable: the store's view of r's profile at its start
    minted,        \* history variable: per profile id, the promoted_versions returned
    stamps,        \* history variable: per snapshot stem, the writes promote() made
    jobs,          \* _optimization_jobs: per request, the record of its background run
    gen_calls,     \* history variable: the generator calls invocation r has made
    evals,         \* the calls made to EvalHarness.evaluate directly, with their outcomes
    averaged,      \* the last call of EvalHarness.average_score, with its value
    dry_run,       \* the last call of score_dry_run_success, with its outcome
    round_log,     \* history variable: per round of r, the calls the round made
    repo_ops,      \* the ProfilesRepo used directly: what save() and promote() stored
    tasks,         \* the background tasks the optimize endpoint has scheduled
    polls,         \* per request id, the statuses the status endpoint has reported
    reflections,   \* a chain of _default_reflector calls, from its first profile on
    generated      \* the last direct call of the default generators

vars == <<files, bank, harness_threshold, generator, pc, cfg, profile, task_specs, round_num, history, best_score,
          best_recipe, next_version, result, runs, reflected, totals, round_log, seen, start, minted,
          stamps, jobs, gen_calls, evals, averaged, dry_run, repo_ops, tasks,
          polls, reflections, generated>>

\* the direct uses of the harness
harness_calls == <<evals, averaged, dry_run>>

\* the direct uses of the profile store, the job endpoints, the reflector and the
\* generators
direct_uses == <<repo_ops, tasks, polls, reflections, generated>>

locals == <<profile, task_specs, round_num, history, best_score, best_recipe,
            next_version>>

\* a store in which "a" was saved before, with a hint an earlier reflection left
StoreWithA ==
    [k \in {KeyA} |->
        Dct([id |-> IdStr(KeyA),
             optimization_hints |-> Lst(<<Str("ensure_all_schema_fields")>>)])]

IdleCfg == [pid |-> KeyA, max_rounds |-> 0]
NoStart == [record |-> None, versions |-> {}]

\* the optimizer is constructed over a store, a bank, a harness and a generator
Init ==
    /\ files = StoreWithA
    /\ bank \in Banks
    /\ harness_threshold \in Thresholds
    /\ generator \in {"default", "custom"}
    /\ pc = [r \in Runners |-> "idle"]
    /\ cfg = [r \in Runners |-> IdleCfg]
    /\ profile = [r \in Runners |-> None]
    /\ task_specs = [r \in Runners |-> <<>>]
    /\ round_num = [r \in Runners |-> 0]
    /\ history = [r \in Runners |-> <<>>]
    /\ best_score = [r \in Runners |-> 0]
    /\ best_recipe = [r \in Runners |-> EmptyDict]
    /\ next_version = [r \in Runners |-> 0]
    /\ result = [r \in Runners |-> None]
    /\ runs = 0
    /\ reflected = [r \in Runners |-> {}]
    /\ totals = [r \in Runners |-> <<>>]
    /\ seen = [r \in Runners |-> {}]
    /\ start = [r \in Runners |-> NoStart]
    /\ minted = [p \in ProfileIds |-> <<>>]
    /\ stamps = [k \in {} |-> <<>>]
    /\ jobs = [r \in Runners |-> None]
    /\ gen_calls = [r \in Runners |-> 0]
    /\ evals = <<>>
    /\ averaged = None
    /\ dry_run = None
    /\ round_log = [r \in Runners |-> <<>>]
    /\ repo_ops = [live |-> DOMAIN StoreWithA, copies |-> {}, last |-> None, calls |-> 0]
    /\ tasks = <<>>
    /\ polls = [q \in Runners |-> <<>>]
    /\ reflections = None
    /\ generated = None

-----------------------------------------------------------------------------
(* GEPAOptimizer.optimize, one action per store operation; the computation *)
(* between two store operations belongs to the action of the later one.    *)

\* _run_optimization, lines 41, 56-65 and 66-70: the record of a background run
JobRunning == [status |-> "running"]
JobCompleted(res) == [status |-> "completed", result |-> res]
\* a handler that reports the run as completed, with the error as its result
JobFailedAsCompleted(e) == [status |-> "completed", result |-> [error |-> e]]
JobFailed(e) == [status |-> "failed", result |-> [error |-> e]]

\* the call optimize(p, mr), made by a run that has recorded itself as running
Call(r, p, mr) ==
    /\ runs < MaxRuns
    /\ runs' = runs + 1
    /\ cfg' = [cfg EXCEPT ![r] = [pid |-> p, max_rounds |-> mr]]
    /\ pc' = [pc EXCEPT ![r] = "load"]
    /\ profile' = [profile EXCEPT ![r] = None]
    /\ task_specs' = [task_specs EXCEPT ![r] = <<>>]
    /\ round_num' = [round_num EXCEPT ![r] = 0]
    /\ history' = [history EXCEPT ![r] = <<>>]
    /\ best_score' = [best_score EXCEPT ![r] = 0]
    /\ best_recipe' = [best_recipe EXCEPT ![r] = EmptyDict]
    /\ next_version' = [next_version EXCEPT ![r] = 0]
    /\ result' = [result EXCEPT ![r] = None]
    /\ reflected' = [reflected EXCEPT ![r] = {}]
    /\ totals' = [totals EXCEPT ![r] = <<>>]
    /\ round_log' = [round_log EXCEPT ![r] = <<>>]
    /\ seen' = [seen EXCEPT ![r] = {}]
    /\ start' = [start EXCEPT ![r] = [record |-> RepoGet(files, p),
                                      versions |-> RepoListVersions(files, p)]]
    /\ jobs' = [jobs EXCEPT ![r] = JobRunning]
    /\ gen_calls' = [gen_calls EXCEPT ![r] = 0]
    /\ UNCHANGED <<files, bank, harness_calls, direct_uses, harness_threshold, generator, minted, stamps>>

\* serialized use: one invocation after another
StartSerial ==
    /\ pc[1] \in {"idle", "done", "failed"}
    /\ \E p \in ProfileIds, mr \in RoundChoices : Call(1, p, mr)

\* concurrent use: each runner makes one invocation, at any time
StartConcurrent(r) ==
    /\ pc[r] = "idle"
    /\ \E p \in ProfileIds, mr \in RoundChoices : Call(r, p, mr)

\* a loop that runs one round more than range(1, max_rounds + 1)
MoreRoundsInclusive(n, max_rounds) == n <= max_rounds

\* the loop bound of line 185: round n + 1 is in range(1, max_rounds + 1)
MoreRounds(n, max_rounds) == n < max_rounds

\* task_specs = get_specs() or the synthetic spec; then the loop is entered or skipped
AfterLoad(r) ==
    /\ task_specs' = [task_specs EXCEPT ![r] =
                          IF bank = <<>> THEN <<SyntheticSpec>> ELSE bank]
    /\ round_num' = [round_num EXCEPT ![r] = 1]
    /\ pc' = [pc EXCEPT ![r] = IF MoreRounds(0, cfg[r].max_rounds) THEN "round"
                                     ELSE "finish"]

\* profiles_repo.get(profile_id) found the profile
Load(r) ==
    /\ pc[r] = "load"
    /\ RepoGet(files, cfg[r].pid) # None
    /\ profile' = [profile EXCEPT ![r] = RepoGet(files, cfg[r].pid)]
    /\ AfterLoad(r)
    /\ UNCHANGED <<jobs, files, bank, harness_calls, direct_uses, gen_calls, harness_threshold, generator, cfg, history, best_score, best_recipe, next_version,
                   result, runs, reflected, totals, round_log, seen, start, minted, stamps>>

\* profiles_repo.get(profile_id) returned None
LoadMissing(r) ==
    /\ pc[r] = "load"
    /\ RepoGet(files, cfg[r].pid) = None
    /\ pc' = [pc EXCEPT ![r] = "create"]
    /\ UNCHANGED <<jobs, files, bank, harness_calls, direct_uses, gen_calls, harness_threshold, generator, cfg, locals, result, runs, reflected, totals, round_log, seen, start,
                   minted, stamps>>

\* a creation that seeds the new record with a hint
NewProfileHinted(profile_id) ==
    Dct([id |-> IdStr(profile_id), version |-> Num(0),
         optimization_hints |-> Lst(<<Str("ensure_all_schema_fields")>>)])

\* profile = {"id": profile_id, "version": 0}; profiles_repo.save(profile_id, profile)
NewProfile(profile_id) == Dct([id |-> IdStr(profile_id), version |-> Num(0)])

Create(r) ==
    /\ pc[r] = "create"
    /\ profile' = [profile EXCEPT ![r] = NewProfile(cfg[r].pid)]
    /\ files' = RepoSave(files, cfg[r].pid, NewProfile(cfg[r].pid))
    /\ AfterLoad(r)
    /\ UNCHANGED <<jobs, bank, harness_calls, direct_uses, gen_calls, harness_threshold, generator, cfg, history, best_score, best_recipe, next_version,
                   result, runs, reflected, totals, round_log, seen, start, minted, stamps>>

\* a selection that takes the improved generator whenever the profile has the key
SelectedGeneratorKeyed(r) ==
    IF generator = "custom" THEN "custom"
    ELSE IF Has(profile[r], "optimization_hints") THEN "improved"
    ELSE "default"

\* lines 187-192: the generator of this round
SelectedGenerator(r) ==
    IF generator = "custom" THEN "custom"
    ELSE IF Truthy(Get(profile[r], "optimization_hints", None)) THEN "improved"
    ELSE "default"

\* a round that generates for the first task spec only
RoundRecipesFirstOnly(r) ==
    CASE SelectedGenerator(r) = "custom" -> CustomRounds(1)
      [] SelectedGenerator(r) = "improved" ->
            {<<_improved_recipe_generator(profile[r], task_specs[r][1])>>}
      [] OTHER ->
            {<<_default_recipe_generator(profile[r], task_specs[r][1])>>}

\* lines 198-202: the round_recipes a round can build, one recipe per task spec
RoundRecipes(r) ==
    LET n == Len(task_specs[r]) IN
    CASE SelectedGenerator(r) = "custom" -> CustomRounds(n)
      [] SelectedGenerator(r) = "improved" ->
            {[i \in 1..n |-> _improved_recipe_generator(profile[r], task_specs[r][i])]}
      [] OTHER ->
            {[i \in 1..n |-> _default_recipe_generator(profile[r], task_specs[r][i])]}

\* the exception of a caller-supplied generator
GeneratorError == [type |-> "RuntimeError", msg |-> "generator failed"]

\* line 199: a caller-supplied generator can raise at any of its calls, having
\* returned the perfect recipe at the calls before
GeneratorRaises(r) ==
    IF SelectedGenerator(r) = "custom"
    THEN {[raised |-> TRUE, error |-> GeneratorError, calls |-> i, evaluated |-> i - 1] :
             i \in 1..Len(task_specs[r])}
    ELSE {}

\* the scores of every recipe the round can generate
RoundScores(r) ==
    [rc \in UNION {Range(rs) : rs \in RoundRecipes(r)} |-> Scores(rc)]

\* lines 200-201: round_results, scored[rc] being the scores of recipe rc
RoundResults(r, recipes, scored) ==
    [i \in 1..Len(recipes) |->
        EvalResult(scored[recipes[i]], SpecId(task_specs[r][i]), harness_threshold)]

\* a selection that takes the last index of the largest total_score
BestIdxLast(results) ==
    CHOOSE i \in 1..Len(results) :
        /\ \A j \in 1..Len(results) : results[j].total_score <= results[i].total_score
        /\ \A j \in (i + 1)..Len(results) : results[j].total_score < results[i].total_score

\* max(range(len(round_results)), key=...): the first index of the largest total_score
BestIdx(results) ==
    CHOOSE i \in 1..Len(results) :
        /\ \A j \in 1..Len(results) : results[j].total_score <= results[i].total_score
        /\ \A j \in 1..(i - 1) : results[j].total_score < results[i].total_score

\* a check against the module default instead of the harness's own threshold
PassesDefaultThreshold(score, threshold) == score >= PROMOTION_THRESHOLD

\* avg_score >= self.eval_harness.threshold
Passes(score, threshold) == score >= threshold

\* f"{avg_score:.3f}": the score in thousandths
Milli(score) == (score + One \div 2000) \div (One \div 1000)

\* the reflection note of line 229
ReflectionNote(n, avg_score, prof) ==
    [t |-> "fstr", round_num |-> n, score |-> Milli(avg_score),
     hints |-> Get(prof, "optimization_hints", Lst(<<>>))]

RoundResult(n, score, eval_result, recipe, reflection) ==
    [round_num |-> n, score |-> score, eval_result |-> eval_result,
     recipe |-> recipe, reflection |-> reflection]

\* a tracker that keeps the latest score instead of the best
BestAfterLatest(best, avg_score) == avg_score

\* lines 239-241
BestAfter(best, avg_score) == IF avg_score > best THEN avg_score ELSE best

\* history variable round_log: round round_num[r] selected this generator, handed it
\* profile[r], made calls generator calls and evaluated evaluate calls, and either
\* raised (completed is FALSE), or got these recipes and results and called the
\* reflector as reflect says (None: no reflector call); stored is the record of the
\* profile in the store after the round
Logged_round(r, completed, calls, evaluated, recipes, results, reflect, stored) ==
    [round_log EXCEPT ![r] =
        Append(@, [round_num |-> round_num[r], generator |-> SelectedGenerator(r),
                   profile |-> profile[r], specs |-> task_specs[r],
                   completed |-> completed, calls |-> calls, evaluated |-> evaluated,
                   recipes |-> recipes, results |-> results, reflect |-> reflect,
                   stored |-> stored])]

\* lines 214-224: the round's average meets the threshold; record it and leave the loop
RoundPass(r, recipes, results, avg_score, best_idx) ==
    /\ round_log' = Logged_round(r, TRUE, Len(recipes), Len(results), recipes, results, None,
                                  RepoGet(files, cfg[r].pid))
    /\ history' = [history EXCEPT ![r] =
          Append(@, RoundResult(round_num[r], avg_score, results[best_idx],
                                recipes[best_idx], None))]
    /\ best_score' = [best_score EXCEPT ![r] = avg_score]
    /\ best_recipe' = [best_recipe EXCEPT ![r] = recipes[best_idx]]
    /\ pc' = [pc EXCEPT ![r] = "finish"]
    /\ UNCHANGED <<files, profile, round_num, reflected>>

\* lines 226-241: the round's average is below the threshold; reflect, save, record
RoundReflect(r, recipes, results, avg_score, best_idx) ==
    /\ \E updated \in _default_reflector(profile[r], results[best_idx],
                                         recipes[best_idx]) :
          /\ profile' = [profile EXCEPT ![r] = updated]
          /\ files' = RepoSave(files, cfg[r].pid, updated)
          /\ round_log' = Logged_round(r, TRUE, Len(recipes), Len(results), recipes, results,
                                        [eval_result |-> results[best_idx],
                                         recipe |-> recipes[best_idx],
                                         returned |-> updated],
                                        RepoGet(RepoSave(files, cfg[r].pid, updated),
                                                cfg[r].pid))
          /\ history' = [history EXCEPT ![r] =
                Append(@, RoundResult(round_num[r], avg_score,
                           results[best_idx], recipes[best_idx],
                           ReflectionNote(round_num[r], avg_score, updated)))]
    /\ best_score' = [best_score EXCEPT ![r] = BestAfter(@, avg_score)]
    /\ best_recipe' = [best_recipe EXCEPT ![r] =
          IF avg_score > best_score[r] THEN recipes[best_idx] ELSE @]
    /\ reflected' = [reflected EXCEPT ![r] = @ \cup {round_num[r]}]
    /\ IF MoreRounds(round_num[r], cfg[r].max_rounds)
       THEN /\ round_num' = [round_num EXCEPT ![r] = @ + 1]
            /\ pc' = pc
       ELSE /\ round_num' = round_num
            /\ pc' = [pc EXCEPT ![r] = "finish"]

\* lines 194-210: what a round can generate and how the harness evaluates it
RoundOutcomes(r) ==
    LET scored == RoundScores(r)
        Raising(recipes) == {i \in 1..Len(recipes) : scored[recipes[i]].raised}
        Outcome(recipes) ==
            IF Raising(recipes) # {}
            THEN \* evaluate raises at the first such recipe, after as many generator calls
                 LET i == CHOOSE k \in Raising(recipes) : \A j \in Raising(recipes) : k <= j
                 IN  [raised |-> TRUE, error |-> scored[recipes[i]].error, calls |-> i,
                      evaluated |-> i]
            ELSE LET results == RoundResults(r, recipes, scored)
                 IN  [raised |-> FALSE, calls |-> Len(recipes), evaluated |-> Len(recipes),
                      recipes |-> recipes, results |-> results,
                      avg_score |-> average_score(results), best_idx |-> BestIdx(results)]
    IN  {Outcome(recipes) : recipes \in RoundRecipes(r)} \cup GeneratorRaises(r)

\* lines 199-200: an exception of the generator or of evaluate leaves optimize()
RoundRaise(r, error, calls, evaluated) ==
    /\ round_log' = Logged_round(r, FALSE, calls, evaluated, <<>>, <<>>, None,
                                  RepoGet(files, cfg[r].pid))
    /\ pc' = [pc EXCEPT ![r] = "failed"]
    /\ result' = [result EXCEPT ![r] = Raise(error)]
    /\ jobs' = [jobs EXCEPT ![r] = JobFailed(error)]
    /\ UNCHANGED <<files, profile, round_num, history, best_score, best_recipe,
                   reflected, totals>>

\* lines 185-241: one iteration of the loop
Round(r) ==
    /\ pc[r] = "round"
    /\ \E o \in RoundOutcomes(r) :
          /\ gen_calls' = [gen_calls EXCEPT ![r] = @ + o.calls]
          /\ IF o.raised THEN RoundRaise(r, o.error, o.calls, o.evaluated)
             ELSE /\ IF Passes(o.avg_score, harness_threshold)
                     THEN RoundPass(r, o.recipes, o.results, o.avg_score, o.best_idx)
                     ELSE RoundReflect(r, o.recipes, o.results, o.avg_score, o.best_idx)
                  /\ totals' = [totals EXCEPT ![r] =
                        Append(@, [i \in 1..Len(o.results) |-> o.results[i].total_score])]
                  /\ jobs' = jobs
                  /\ result' = result
    /\ UNCHANGED <<bank, harness_calls, direct_uses, harness_threshold, generator, cfg, task_specs, next_version,
                   runs, seen, start, minted, stamps>>

\* the OptimizationResult of lines 259-266; its history is the list history[r] itself
OptimizationResult(r, promoted, promoted_version) ==
    [profile_id |-> cfg[r].pid, rounds |-> Len(history[r]), final_score |-> best_score[r],
     promoted |-> promoted, promoted_version |-> promoted_version]

\* a promotion decided against the default threshold, whatever the harness has
PromotedAtDefault(best, threshold) == best >= PROMOTION_THRESHOLD

\* line 244
Promoted(best, threshold) == best >= threshold

\* lines 243-245, 259-266: not promoted; return
FinishReturn(r) ==
    /\ pc[r] = "finish"
    /\ ~Promoted(best_score[r], harness_threshold)
    /\ result' = [result EXCEPT ![r] = OptimizationResult(r, FALSE, None)]
    /\ jobs' = [jobs EXCEPT ![r] = JobCompleted(OptimizationResult(r, FALSE, None))]
    /\ pc' = [pc EXCEPT ![r] = "done"]
    /\ UNCHANGED <<files, bank, harness_calls, direct_uses, gen_calls, harness_threshold, generator, cfg, locals, runs, reflected, totals, round_log, seen, start, minted, stamps>>

\* lines 247-251: promoted; save the best recipe and score into the profile
FinishSave(r) ==
    /\ pc[r] = "finish"
    /\ Promoted(best_score[r], harness_threshold)
    /\ LET saved == Put(Put(profile[r], "best_recipe", best_recipe[r]),
                        "best_score", Num(best_score[r]))
       IN  /\ profile' = [profile EXCEPT ![r] = saved]
           /\ files' = RepoSave(files, cfg[r].pid, saved)
    /\ pc' = [pc EXCEPT ![r] = "list_versions"]
    /\ UNCHANGED <<jobs, bank, harness_calls, direct_uses, gen_calls, harness_threshold, generator, cfg, task_specs, round_num, history, best_score, best_recipe,
                   next_version, result, runs, reflected, totals, round_log, seen, start, minted, stamps>>

\* a version rule that reuses the largest existing version
NextVersionReused(versions) == SetMax(versions \cup {0})

\* line 255: max(versions, default=0) + 1
NextVersion(versions) == SetMax(versions \cup {0}) + 1

\* lines 254-255
ListVersions(r) ==
    /\ pc[r] = "list_versions"
    /\ seen' = [seen EXCEPT ![r] = RepoListVersions(files, cfg[r].pid)]
    /\ next_version' = [next_version EXCEPT ![r] =
                            NextVersion(RepoListVersions(files, cfg[r].pid))]
    /\ pc' = [pc EXCEPT ![r] = "promote"]
    /\ UNCHANGED <<jobs, files, bank, harness_calls, direct_uses, gen_calls, harness_threshold, generator, cfg, profile, task_specs, round_num, history, best_score,
                   best_recipe, result, runs, reflected, totals, round_log, start, minted, stamps>>

\* promote, line 67: raise FileNotFoundError(f"Profile {profile_id} not found")
ProfileNotFound == [type |-> "FileNotFoundError", msg |-> "Profile not found"]

\* history variable stamps: write w was made to the file of stem k
Logged(k, w) ==
    [j \in DOMAIN stamps \cup {k} |->
        IF j = k THEN (IF k \in DOMAIN stamps THEN stamps[k] ELSE <<>>) \o <<w>>
        ELSE stamps[j]]

\* line 256, promote lines 65-71: the source is checked and copied to the snapshot
PromoteCopy(r) ==
    /\ pc[r] = "promote"
    /\ IF _path(cfg[r].pid) \in DOMAIN files
       THEN LET k == PromotedId(cfg[r].pid, next_version[r])
                copied == PromoteCopied(files, cfg[r].pid, next_version[r])
            IN  /\ files' = copied
                /\ stamps' = Logged(k, [by |-> r, op |-> "copy",
                                         content |-> files[_path(cfg[r].pid)]])
                /\ jobs' = jobs
                /\ result' = result
                /\ pc' = [pc EXCEPT ![r] = "stamp"]
       ELSE \* FileNotFoundError leaves optimize()
            /\ files' = files
            /\ stamps' = stamps
            /\ jobs' = [jobs EXCEPT ![r] = JobFailed(ProfileNotFound)]
            /\ result' = [result EXCEPT ![r] = Raise(ProfileNotFound)]
            /\ pc' = [pc EXCEPT ![r] = "failed"]
    /\ UNCHANGED <<bank, harness_calls, direct_uses, gen_calls, harness_threshold, generator, cfg, locals, runs,
                   reflected, totals, round_log, seen, start, minted>>

\* promote lines 73-79, then lines 257-266: the snapshot is stamped; return
PromoteStamp(r) ==
    /\ pc[r] = "stamp"
    /\ LET k == PromotedId(cfg[r].pid, next_version[r])
           stamped == PromoteStamped(files, cfg[r].pid, next_version[r])
       IN  /\ files' = stamped
           /\ stamps' = Logged(k, [by |-> r, op |-> "stamp", content |-> stamped[k]])
    /\ result' = [result EXCEPT ![r] = OptimizationResult(r, TRUE, Num(next_version[r]))]
    /\ jobs' = [jobs EXCEPT ![r] =
                    JobCompleted(OptimizationResult(r, TRUE, Num(next_version[r])))]
    /\ minted' = [minted EXCEPT ![cfg[r].pid] = Append(@, next_version[r])]
    /\ pc' = [pc EXCEPT ![r] = "done"]
    /\ UNCHANGED <<bank, harness_calls, direct_uses, gen_calls, harness_threshold, generator, cfg, locals, runs, reflected,
                   totals, round_log, seen, start>>

\* the steps of optimize() outside its loop
StoreStep(r) ==
    \/ Load(r) \/ LoadMissing(r) \/ Create(r)
    \/ FinishReturn(r) \/ FinishSave(r)
    \/ ListVersions(r) \/ PromoteCopy(r) \/ PromoteStamp(r)

Step(r) == Round(r) \/ StoreStep(r)

\* serialized use of the optimizer
Next == StartSerial \/ Step(1)
Spec == Init /\ [][Next]_vars

\* two invocations, overlapping in any way
NextConcurrent == \E r \in Runners : StartConcurrent(r) \/ Step(r)
InitConcurrent == Init /\ generator = "default"
SpecConcurrent == InitConcurrent /\ [][NextConcurrent]_vars

\* Every call a round makes returns.  Round(r) is enabled exactly when
\* pc[r] = "round" and each Round(r) step changes pc[r] or round_num[r], so this
\* is weak fairness of Round(r), stated without the enabledness of the round.
RoundReturns(r) ==
    \A n \in 1..(MaxRounds + 1) : []<>~(pc[r] = "round" /\ round_num[r] = n)

\* serialized use in which every call made by optimize() returns
SpecLive == Spec /\ WF_vars(StoreStep(1)) /\ RoundReturns(1)

-----------------------------------------------------------------------------
(* Direct use of the harness and of score_dry_run_success *)

optimizer_vars == <<files, bank, harness_threshold, generator, pc, cfg, locals, result,
                    runs, reflected, totals, round_log, seen, start, minted, stamps, jobs, gen_calls>>

\* a harness whose threshold drifts with its use
EvalCallDrifting(recipe, task_spec) ==
    evaluate(recipe, task_spec, harness_threshold + Len(evals))

\* self.evaluate(recipe, task_spec) on the harness, whose threshold is self.threshold
EvalCall(recipe, task_spec) == evaluate(recipe, task_spec, harness_threshold)

\* a call harness.evaluate(recipe, task_spec); evaluate only reads its arguments,
\* which are recorded as they are after the call
Evaluate(recipe, task_spec) ==
    /\ Len(evals) < MaxEvals
    /\ evals' = Append(evals, [recipe |-> recipe, task_spec |-> task_spec,
                                out |-> EvalCall(recipe, task_spec),
                                recipe_after |-> recipe, task_spec_after |-> task_spec])
    /\ UNCHANGED <<optimizer_vars, direct_uses, averaged, dry_run>>

\* the results the evaluate calls have returned so far, in order
Returned ==
    LET Ret(e) == ~e.out.raised
        returned == SelectSeq(evals, Ret)
    IN  [i \in DOMAIN returned |-> returned[i].out.v]

\* a call harness.average_score(results) on the results returned so far
AverageScore ==
    /\ averaged' = [results |-> Returned, value |-> average_score(Returned)]
    /\ UNCHANGED <<optimizer_vars, direct_uses, evals, dry_run>>

\* a call score_dry_run_success(workflow), and the evaluation of the recipe that
\* holds just this workflow; a behaviour makes one such call
ScoreWorkflow(workflow) ==
    /\ dry_run = None
    /\ dry_run' = [workflow |-> workflow, out |-> score_dry_run_success(workflow),
                   evaluated |-> EvalCall(Dct([workflow |-> workflow]), None)]
    /\ UNCHANGED <<optimizer_vars, direct_uses, evals, averaged>>

\* a harness constructed with one of the thresholds, not used yet
InitHarness == Init /\ bank = <<>> /\ generator = "default"

NextHarness ==
    \/ \E inp \in EvalInputs : Evaluate(inp.recipe, inp.task_spec)
    \/ AverageScore
SpecHarness == InitHarness /\ [][NextHarness]_vars

NextScoring == \E workflow \in WorkflowInputs : ScoreWorkflow(workflow)
SpecScoring == InitHarness /\ [][NextScoring]_vars

-----------------------------------------------------------------------------
(* Direct use of ProfilesRepo, one call after another *)

\* history variable repo_ops: the ids save() stored and delete() has not removed
\* since (live), the files promote() created (copies), and the last promote call
\* with the directory before and after it
RepoCalled(live, copies, last) ==
    [live |-> live, copies |-> copies, last |-> last, calls |-> repo_ops.calls + 1]

\* every variable but the directory and the record of the calls made to it
repo_frame == <<bank, harness_threshold, generator, pc, cfg, locals, result, runs, reflected,
                totals, round_log, seen, start, minted, stamps, jobs, gen_calls,
                harness_calls, tasks, polls, reflections, generated>>

\* repo.save(profile_id, data)
RepoSaveCall(profile_id, data) ==
    /\ repo_ops.calls < MaxRepoCalls
    /\ files' = RepoSave(files, profile_id, data)
    /\ repo_ops' = RepoCalled(repo_ops.live \cup {profile_id},
                              repo_ops.copies \ {_path(profile_id)}, repo_ops.last)
    /\ UNCHANGED repo_frame

\* repo.delete(profile_id)
RepoDeleteCall(profile_id) ==
    /\ repo_ops.calls < MaxRepoCalls
    /\ files' = RepoDelete(files, profile_id)
    /\ repo_ops' = RepoCalled(repo_ops.live \ {profile_id},
                              repo_ops.copies \ {_path(profile_id)}, repo_ops.last)
    /\ UNCHANGED repo_frame

\* repo.promote(profile_id, version), lines 65-79: FileNotFoundError for a missing
\* source; otherwise the copy, the stamp and the promoted id
RepoPromoteCall(profile_id, version) ==
    /\ repo_ops.calls < MaxRepoCalls
    /\ IF _path(profile_id) \in DOMAIN files
       THEN /\ files' = PromoteStamped(PromoteCopied(files, profile_id, version),
                                       profile_id, version)
            /\ repo_ops' =
                  RepoCalled(repo_ops.live \ {PromotedId(profile_id, version)},
                             repo_ops.copies \cup {_path(PromotedId(profile_id, version))},
                             [profile_id |-> profile_id, version |-> version,
                              before |-> files,
                              after |-> PromoteStamped(
                                            PromoteCopied(files, profile_id, version),
                                            profile_id, version),
                              out |-> Ok(IdStr(PromotedId(profile_id, version)))])
       ELSE /\ files' = files
            /\ repo_ops' =
                  RepoCalled(repo_ops.live, repo_ops.copies,
                             [profile_id |-> profile_id, version |-> version,
                              before |-> files, after |-> files,
                              out |-> Raise(ProfileNotFound)])
    /\ UNCHANGED repo_frame

NextRepo ==
    \/ \E profile_id \in RepoIds :
          \E data \in RepoRecords(profile_id) : RepoSaveCall(profile_id, data)
    \/ \E profile_id \in RepoIds : RepoDeleteCall(profile_id)
    \/ \E profile_id \in RepoIds, version \in RepoVersions :
          RepoPromoteCall(profile_id, version)
SpecRepo == InitHarness /\ [][NextRepo]_vars

-----------------------------------------------------------------------------
(* One harness, used either directly or by optimize() *)

\* the harness evaluates recipes handed to it directly, or the optimizer built
\* over it runs; the two uses are not mixed in one behaviour
NextEither ==
    \/ /\ evals = <<>>
       /\ averaged = None
       /\ Next
    \/ /\ runs = 0
       /\ bank = <<>>
       /\ generator = "default"
       /\ NextHarness
SpecEither == Init /\ [][NextEither]_vars

-----------------------------------------------------------------------------
(* app/api/optimize_profile.py: the endpoints and the background task. The   *)
(* request ids are the elements of Runners. What optimizer.optimize does is  *)
(* in the actions of Spec; here the call stands for its outcome, the         *)
(* OptimizationResult returned or the exception raised.                      *)

\* optimize_profile, line 75
JobQueued == [status |-> "queued"]

\* line 54: what optimizer.optimize(profile_id, max_rounds) can come back with
JobOutcomes(profile_id) ==
    {Ok([profile_id |-> profile_id, rounds |-> 0, final_score |-> 0,
         promoted |-> FALSE, promoted_version |-> None]),
     Ok([profile_id |-> profile_id, rounds |-> 1, final_score |-> 90 * (One \div 100),
         promoted |-> TRUE, promoted_version |-> 1]),
     Raise(ProfileNotFound)}

\* every variable but the job table, the scheduled tasks and the polls
jobs_frame == <<files, bank, harness_threshold, generator, pc, cfg, locals, result, runs,
                reflected, totals, round_log, seen, start, minted, stamps, gen_calls,
                harness_calls, repo_ops, reflections, generated>>

\* POST optimize_profile(request), lines 75-83: the job is recorded as queued
\* under the request id, whatever was there, and its run is scheduled
optimize_profile(request_id, profile_id) ==
    /\ Len(tasks) < MaxJobs
    /\ jobs' = [jobs EXCEPT ![request_id] = JobQueued]
    /\ tasks' = Append(tasks, [request_id |-> request_id, profile_id |-> profile_id,
                               at |-> "queued", out |-> None])
    /\ UNCHANGED <<polls, jobs_frame>>

\* _run_optimization, line 41: a scheduled run starts on a worker thread
RunStarts(i) ==
    /\ tasks[i].at = "queued"
    /\ jobs' = [jobs EXCEPT ![tasks[i].request_id] = JobRunning]
    /\ tasks' = [tasks EXCEPT ![i].at = "running"]
    /\ UNCHANGED <<polls, jobs_frame>>

\* _run_optimization, lines 54-70: optimize() has returned or raised and the run
\* records the outcome under its request id
RunEnds(i, out) ==
    /\ tasks[i].at = "running"
    /\ jobs' = [jobs EXCEPT ![tasks[i].request_id] =
                    IF out.raised THEN JobFailed(out.error) ELSE JobCompleted(out.v)]
    /\ tasks' = [tasks EXCEPT ![i].at = "done", ![i].out = out]
    /\ UNCHANGED <<polls, jobs_frame>>

\* optimization_status, lines 88-95
StatusResponse(request_id) ==
    IF jobs[request_id] = None THEN [status |-> "not_found", result |-> None]
    ELSE [status |-> jobs[request_id].status,
          result |-> IF "result" \in DOMAIN jobs[request_id]
                     THEN jobs[request_id].result ELSE None]

\* the status requests answered so far
TotalPolls == Len(polls[1]) + Len(polls[2])

\* GET optimization_status(request_id); history variable polls keeps the
\* response together with the tasks scheduled by then
optimization_status(request_id) ==
    /\ TotalPolls < MaxPolls
    /\ polls' = [polls EXCEPT ![request_id] =
                    Append(@, [status |-> StatusResponse(request_id).status,
                               result |-> StatusResponse(request_id).result,
                               tasks |-> tasks])]
    /\ UNCHANGED <<jobs, tasks, jobs_frame>>

NextJobs ==
    \/ \E request_id \in Runners, profile_id \in ProfileIds :
          optimize_profile(request_id, profile_id)
    \/ \E i \in DOMAIN tasks : RunStarts(i)
    \/ \E i \in DOMAIN tasks : \E out \in JobOutcomes(tasks[i].profile_id) : RunEnds(i, out)
    \/ \E request_id \in Runners : optimization_status(request_id)
\* line 52: every run builds EvalHarness() with the default threshold
InitJobs == InitHarness /\ harness_threshold = PROMOTION_THRESHOLD
SpecJobs == InitJobs /\ [][NextJobs]_vars

-----------------------------------------------------------------------------
(* Direct use of the default generators *)

\* the calls _improved_recipe_generator(profile, task_spec) and
\* _default_recipe_generator(profile, task_spec); a behaviour makes them once
Generate(prof, task_spec) ==
    /\ generated = None
    /\ generated' = [profile |-> prof, task_spec |-> task_spec,
                     improved |-> _improved_recipe_generator(prof, task_spec),
                     baseline |-> _default_recipe_generator(prof, task_spec)]
    /\ UNCHANGED <<optimizer_vars, harness_calls, repo_ops, tasks, polls, reflections>>

NextGenerate == \E prof \in GeneratorProfiles, task_spec \in GeneratorSpecs :
                    Generate(prof, task_spec)
SpecGenerate == InitHarness /\ [][NextGenerate]_vars

-----------------------------------------------------------------------------
(* Direct use of _default_reflector *)

\* a call _default_reflector(profile, eval_result, recipe): the first call of a
\* chain is made on first, every later one on the profile the call before returned
Reflect(first, eval_result) ==
    LET fresh == reflections = None
        current == IF fresh THEN first ELSE reflections.profile
        prior == IF fresh THEN <<>> ELSE reflections.results
    IN  /\ Len(prior) < MaxReflections
        /\ \E updated \in _default_reflector(current, eval_result, EmptyDict) :
              reflections' = [first |-> IF fresh THEN first ELSE reflections.first,
                              profile |-> updated,
                              results |-> Append(prior, eval_result)]
        /\ UNCHANGED <<optimizer_vars, harness_calls, repo_ops, tasks, polls, generated>>

NextReflect == \E first \in ReflectorProfiles, er \in ReflectorResults : Reflect(first, er)
SpecReflect == InitHarness /\ [][NextReflect]_vars

-----------------------------------------------------------------------------
(* Properties of serialized use (Spec) *)

Last(s) == s[Len(s)]
HistoryScores(r) == {history[r][k].score : k \in DOMAIN history[r]}
SomeRoundPassed(r) == \E k \in DOMAIN history[r] : history[r][k].score >= harness_threshold

\* C1: under serialized use the promoted_version values returned for one profile
\* id strictly increase, each is greater than every version the store lists for
\* that id when it is assigned, and for a profile whose snapshots are exactly the
\* versions these promotions assigned the k-th promotion returns k (the first 1).
C1_MonotonicVersions ==
    /\ \A p \in ProfileIds :
          /\ \A i, j \in DOMAIN minted[p] : i < j => minted[p][i] < minted[p][j]
          /\ RepoListVersions(files, p) \subseteq Range(minted[p])
                => \A k \in DOMAIN minted[p] : minted[p][k] = k
    /\ pc[1] = "promote" => \A v \in RepoListVersions(files, cfg[1].pid) : v < next_version[1]

\* two promotions of "a" have returned 1 and then 2
C1_Witness == minted[KeyA] = <<1, 2>>

\* C2: every recorded round's score is the mean of the total_score of its
\* results; a round whose score is >= the harness threshold is recorded without a
\* reflection, the reflector was not called in it, it is the last entry of the
\* history (the loop has been left), and the run returns promoted = True.
C2_PromotionCheck ==
    \A k \in DOMAIN history[1] :
        LET h == history[1][k] IN
        /\ h.score * Len(totals[1][k]) = SumSeq(totals[1][k])
        /\ h.score >= harness_threshold =>
              /\ k = Len(history[1])
              /\ h.reflection = None
              /\ k \notin reflected[1]
              /\ pc[1] # "round"
              /\ pc[1] = "done" => result[1].promoted = TRUE

\* a run of two rounds over two task specs returned after its second round passed
C2_Witness ==
    /\ pc[1] = "done"
    /\ Len(history[1]) = 2
    /\ Len(totals[1][2]) = 2
    /\ history[1][1].score < harness_threshold
    /\ history[1][2].score >= harness_threshold

\* C3: a run in which no round scored >= threshold returns promoted = False and
\* no promoted_version, has executed exactly max_rounds rounds
\* (rounds = len(history) = max_rounds), every history entry has a reflection, and
\* the versions of the profile are those it had when the run began.
C3_Exhaustion ==
    (pc[1] = "done" /\ ~SomeRoundPassed(1)) =>
        /\ result[1].promoted = FALSE
        /\ result[1].promoted_version = None
        /\ result[1].rounds = cfg[1].max_rounds
        /\ Len(history[1]) = cfg[1].max_rounds
        /\ \A k \in DOMAIN history[1] : history[1][k].reflection # None
        /\ RepoListVersions(files, cfg[1].pid) = start[1].versions

\* C4: an invocation whose generator, reflector and store calls all return does
\* return an OptimizationResult (a generator or a store call that raises is
\* outside this case);
\* it has then executed at most max_rounds rounds, and it left the loop either
\* after a round that met the threshold or after round max_rounds.
C4_Termination ==
    /\ (pc[1] = "load") ~> \/ pc[1] = "done"
                            \/ result[1] \in {Raise(GeneratorError), Raise(ProfileNotFound)}
    /\ [](pc[1] = "done" =>
            /\ result[1] # None
            /\ result[1].rounds <= cfg[1].max_rounds
            /\ \/ history[1] # <<>> /\ Last(history[1]).score >= harness_threshold
               \/ result[1].rounds = cfg[1].max_rounds)

\* a run has returned after exhausting the largest max_rounds without promotion
C4_Witness ==
    /\ pc[1] = "done"
    /\ cfg[1].max_rounds = MaxRounds
    /\ result[1].rounds = MaxRounds
    /\ result[1].promoted = FALSE

\* C5: a run returns promoted = True exactly when one of the rounds it executed
\* scored >= threshold, and promoted_version is present exactly when promoted.
C5_PromotionOnlyOnPass ==
    pc[1] = "done" =>
        /\ result[1].promoted = TRUE <=> SomeRoundPassed(1)
        /\ result[1].promoted_version # None <=> result[1].promoted = TRUE

\* C6: a run that returns with a non-empty history reports as final_score the
\* largest score of its history; if it promoted, the best_score and best_recipe
\* stored in the profile and in the new snapshot are the score and the round-best
\* recipe of a round with that largest score.
C6_BestSoFar ==
    (pc[1] = "done" /\ history[1] # <<>>) =>
        LET best == SetMax(HistoryScores(1))
            cur == files[_path(cfg[1].pid)]
        IN  /\ result[1].final_score = best
            /\ result[1].promoted = TRUE =>
                  \E k \in DOMAIN history[1] :
                     /\ history[1][k].score = best
                     /\ \A f \in {cur, files[PromotedId(cfg[1].pid,
                                                       result[1].promoted_version.v)]} :
                           /\ Get(f, "best_score", None) = Num(best)
                           /\ Get(f, "best_recipe", None) = history[1][k].recipe

\* a run has returned whose second round scored lower than its first
C6_Witness ==
    /\ pc[1] = "done"
    /\ Len(history[1]) = 2
    /\ history[1][2].score < history[1][1].score
    /\ result[1].final_score = history[1][1].score

\* C9: once promote() has stamped a snapshot, the file of that snapshot keeps
\* the content stamped, whatever later invocations do and for whatever id.
C9_SnapshotsImmutable ==
    \A k \in DOMAIN stamps :
        \A i \in DOMAIN stamps[k] :
            stamps[k][i].op = "stamp" => files[k] = stamps[k][i].content

\* the fields of the current record a run with the default reflector may change
RunFields == {"optimization_hints", "last_score", "best_score", "best_recipe"}

\* C10: from the moment a run holds its profile, the current record of its
\* profile id has the version field and the promoted flag it began with, and
\* differs from it in RunFields only; when the run has returned, list_versions of
\* its id is what it was at the start if it did not promote, and that plus the one
\* element max + 1 if it promoted.
C10_VersionOnlyByPromotion ==
    pc[1] \notin {"idle", "load", "create"} =>
        LET p == cfg[1].pid
            cur == files[_path(p)]
            base == IF start[1].record = None THEN NewProfile(p) ELSE start[1].record
        IN  /\ \A key \in (DOMAIN cur.v \cup DOMAIN base.v) \ RunFields :
                  /\ key \in DOMAIN cur.v /\ key \in DOMAIN base.v
                  /\ cur.v[key] = base.v[key]
            /\ "promoted" \in DOMAIN cur.v => "promoted" \in DOMAIN base.v
            /\ pc[1] = "done" =>
                  RepoListVersions(files, p) =
                     IF result[1].promoted
                     THEN start[1].versions \cup {SetMax(start[1].versions \cup {0}) + 1}
                     ELSE start[1].versions

\* a promoting run on a profile that had a version has returned
C10_Witness ==
    /\ pc[1] = "done"
    /\ result[1].promoted = TRUE
    /\ start[1].versions # {}
    /\ reflected[1] # {}

-----------------------------------------------------------------------------
(* Properties of concurrent use (SpecConcurrent) *)

\* what the store holds under the names of profile id p
OwnView(fs, p) ==
    [record |-> RepoGet(fs, p),
     snapshots |-> [v \in RepoListVersions(fs, p) |-> fs[PromotedId(p, v)]]]

\* C7: a step of an invocation for one profile id leaves everything the store
\* holds for a different profile id as it was, so each of two concurrent
\* invocations for distinct ids reads and leaves what it would when run alone.
C7_Independence ==
    [][\A r \in Runners : \A o \in Runners \ {r} :
          (/\ pc[r] # "idle"
           /\ cfg'[o].pid # cfg[r].pid
           /\ cfg'[r] = cfg[r] /\ pc'[r] = pc[r] /\ round_num'[r] = round_num[r])
          => OwnView(files', cfg[r].pid) = OwnView(files, cfg[r].pid)]_vars

\* C8: two concurrent invocations for one profile id that read the same
\* list_versions result compute the same next version and, when both have
\* returned, the same promoted_version; and the copy of a later promote replaces
\* the snapshot an earlier one wrote: after it, the snapshot file is the current
\* record its promote read.
C8_SameIdRace ==
    cfg[1].pid = cfg[2].pid =>
        /\ (/\ pc[1] \in {"promote", "stamp", "done"}
            /\ pc[2] \in {"promote", "stamp", "done"}
            /\ next_version[1] # 0 /\ next_version[2] # 0
            /\ seen[1] = seen[2])
           => /\ next_version[1] = next_version[2]
              /\ (pc[1] = "done" /\ pc[2] = "done")
                    => result[1].promoted_version = result[2].promoted_version
        /\ \A k \in DOMAIN stamps :
              Last(stamps[k]).op = "copy" => files[k] = Last(stamps[k]).content

\* both invocations returned the same promoted_version, the second having copied
\* over the snapshot the first had stamped
C8_Witness ==
    /\ cfg[1].pid = cfg[2].pid
    /\ pc[1] = "done" /\ pc[2] = "done"
    /\ result[1].promoted = TRUE /\ result[2].promoted = TRUE
    /\ result[1].promoted_version = result[2].promoted_version
    /\ \E k \in DOMAIN stamps :
          /\ Len(stamps[k]) = 4
          /\ stamps[k][2].op = "stamp"
          /\ stamps[k][3].op = "copy"
          /\ stamps[k][3].by # stamps[k][2].by

-----------------------------------------------------------------------------
(* Properties of the error paths *)

\* the invocation has passed the load/create step of lines 169-173
Loaded(r) == pc[r] \notin {"idle", "load", "create"}

\* C11: a run on a profile that is absent at its start saves the record
\* {id, version 0} without hints before its first round, the profile exists from
\* then on and after the run returns, and in serialized use the promote call of
\* optimize() never fails with the missing-source error.
C11_LazyCreation ==
    /\ Loaded(1) => _path(cfg[1].pid) \in DOMAIN files
    /\ (pc[1] \in {"round", "finish"} /\ start[1].record = None /\ gen_calls[1] = 0) =>
          /\ DOMAIN files[_path(cfg[1].pid)].v = {"id", "version"}
          /\ files[_path(cfg[1].pid)].v["id"] = IdStr(cfg[1].pid)
          /\ files[_path(cfg[1].pid)].v["version"] = Num(0)
    /\ result[1] # Raise(ProfileNotFound)

\* a run of one round on a profile that was absent has promoted it and returned
C11_Witness ==
    /\ pc[1] = "done"
    /\ start[1].record = None
    /\ cfg[1].max_rounds = 1
    /\ result[1].rounds = 1
    /\ result[1].promoted = TRUE

\* the generator of invocation r raised and the exception left optimize()
GeneratorFailed(r) == result[r] = Raise(GeneratorError)

\* C12: when the recipe generator raises in a round, the exception leaves
\* optimize(): no result is returned, no round entry is recorded for that round,
\* list_versions and promote are not called and no version is minted, the job
\* record of the run is "failed" with the error attached, and until another run
\* is started no further generator call is made, the store is not written and
\* the job record stays "failed" (it never becomes "completed").
C12_GeneratorFailure ==
    /\ [](GeneratorFailed(1) =>
            /\ pc[1] = "failed"
            /\ Len(history[1]) = Len(totals[1])
            /\ gen_calls[1] > Len(history[1]) * Len(task_specs[1])
            /\ gen_calls[1] <= (Len(history[1]) + 1) * Len(task_specs[1])
            /\ next_version[1] = 0 /\ seen[1] = {}
            /\ RepoListVersions(files, cfg[1].pid) = start[1].versions
            /\ jobs[1].status = "failed"
            /\ jobs[1].result = [error |-> GeneratorError])
    /\ [][GeneratorFailed(1) =>
            \/ jobs'[1] = JobRunning /\ pc'[1] = "load" /\ files' = files
            \/ UNCHANGED <<files, gen_calls, jobs, result, minted, history>>]_vars

\* the generator raised at its first call of the second round, over two task specs
C12_Witness ==
    /\ GeneratorFailed(1)
    /\ Len(task_specs[1]) = 2
    /\ Len(history[1]) = 1
    /\ gen_calls[1] = 3

-----------------------------------------------------------------------------
(* Properties of the harness used directly (SpecHarness) *)

\* the evaluate calls that returned
ReturnedCalls == {i \in DOMAIN evals : ~evals[i].out.raised}

\* C13: scoring is total over malformed recipe content: whatever the type or
\* shape of the workflow, steps, step, op, args and of the four maps of a recipe,
\* EvalHarness.evaluate (and so each scoring function it calls) returns a result
\* and never raises.
C13_ScoringTotal == \A i \in DOMAIN evals : ~evals[i].out.raised

\* C14: total_score is 0.45*dry_run_success + 0.25*schema_validity +
\* 0.20*replay_determinism - 0.10*token_cost clamped to [0, 1] and is the same
\* under every harness threshold; passed is exactly total_score >= the threshold
\* of the harness; details records that threshold and the task spec's id, or an
\* absent id when no task spec is given.  Recorded calls never change, so the
\* property is stated of the latest call of each state.
C14_TotalFormula ==
    \A i \in ReturnedCalls \cap {Len(evals)} :
        LET res == evals[i].out.v
            weighted == (45 * res.dry_run_success + 25 * res.schema_validity
                           + 20 * res.replay_determinism - 10 * res.token_cost) * AvgLcm
        IN  /\ res.total_score = IF weighted < 0 THEN 0
                                  ELSE IF weighted > One THEN One ELSE weighted
            /\ \A th \in Thresholds :
                  evaluate(evals[i].recipe, evals[i].task_spec, th).v.total_score
                      = res.total_score
            /\ res.passed = (res.total_score >= harness_threshold)
            /\ res.details.threshold = harness_threshold
            /\ evals[i].task_spec = None => res.details.task_spec_id = None
            /\ evals[i].task_spec = SpecA => res.details.task_spec_id = Str("spec-a")

\* the default harness has passed the test recipe for task spec "spec-a", and a
\* call without a task spec has returned
C14_Witness ==
    /\ harness_threshold = PROMOTION_THRESHOLD
    /\ \E i \in ReturnedCalls :
          /\ evals[i].recipe = HighQualityRecipe
          /\ evals[i].task_spec = SpecA
          /\ evals[i].out.v.passed = TRUE
    /\ \E i \in ReturnedCalls : evals[i].task_spec = None /\ evals[i].out.v.passed = FALSE

\* C15: every sub-score evaluate returns lies in [0, 1] and so does total_score;
\* hence so does every average of results, which is what a round's score, the
\* best score and the final score of optimize() are.
C15_ScoreRanges ==
    /\ \A i \in ReturnedCalls :
          LET res == evals[i].out.v IN
          /\ 0 <= res.schema_validity /\ res.schema_validity <= Unit
          /\ 0 <= res.dry_run_success /\ res.dry_run_success <= Unit
          /\ 0 <= res.replay_determinism /\ res.replay_determinism <= Unit
          /\ 0 <= res.token_cost /\ res.token_cost <= Unit
          /\ 0 <= res.total_score /\ res.total_score <= One
    /\ averaged # None => 0 <= averaged.value /\ averaged.value <= One

\* a recipe whose weighted sum is negative has been scored 0, a recipe with
\* sub-scores of 1 has been scored, and their average has been taken
C15_Witness ==
    /\ \E i \in ReturnedCalls :
          /\ 25 * evals[i].out.v.schema_validity < 10 * evals[i].out.v.token_cost
          /\ evals[i].out.v.dry_run_success = 0
          /\ evals[i].out.v.total_score = 0
    /\ \E i \in ReturnedCalls : evals[i].out.v.dry_run_success = Unit
    /\ averaged # None
    /\ Len(averaged.results) = 2

HighQualityCalls == {i \in ReturnedCalls : evals[i].recipe = HighQualityRecipe}

\* C17 as stated: for the three-step recipe, total_score > 0.5 and all four
\* sub-scores, token_cost among them, are > 0.5.
C17_AllAboveHalf ==
    \A i \in HighQualityCalls :
        LET res == evals[i].out.v IN
        /\ 2 * res.total_score > One
        /\ 2 * res.schema_validity > Unit
        /\ 2 * res.dry_run_success > Unit
        /\ 2 * res.replay_determinism > Unit
        /\ 2 * res.token_cost > Unit

\* C17 amended: for the three-step recipe, total_score > 0.5 (it is 0.892),
\* schema_validity, dry_run_success and replay_determinism are > 0.5 (each is 1),
\* and token_cost, the cost that is subtracted, is 0.08.
C17_HighQualityScores ==
    \A i \in HighQualityCalls :
        LET res == evals[i].out.v IN
        /\ 2 * res.total_score > One
        /\ res.total_score = 892 * (One \div 1000)
        /\ 2 * res.schema_validity > Unit
        /\ 2 * res.dry_run_success > Unit
        /\ 2 * res.replay_determinism > Unit
        /\ 100 * res.token_cost = 8 * Unit

\* the three-step recipe has been evaluated
C17_Witness == HighQualityCalls # {}

\* C20: average_score returns 0.0 for no results and otherwise the arithmetic
\* mean of the total_score values, so the average of [a, a] is a and the value
\* lies between the smallest and the largest total_score.
C20_AverageScore ==
    averaged # None =>
        LET rs == averaged.results
            n == Len(rs)
        IN  /\ n = 0 => averaged.value = 0
            /\ n > 0 =>
                  /\ averaged.value * n = SumSeq([i \in 1..n |-> rs[i].total_score])
                  /\ \E i \in 1..n : rs[i].total_score <= averaged.value
                  /\ \E i \in 1..n : averaged.value <= rs[i].total_score
            /\ (n = 2 /\ rs[1].total_score = rs[2].total_score)
                  => averaged.value = rs[1].total_score

\* the average of three results with different totals has been taken
C20_Witness ==
    /\ averaged # None
    /\ Len(averaged.results) = 3
    /\ averaged.results[1].total_score < averaged.results[2].total_score
    /\ averaged.results[3].total_score < averaged.results[1].total_score

-----------------------------------------------------------------------------
(* Properties of score_dry_run_success (SpecScoring) *)

\* the steps value of the workflow that was scored
ScoredSteps ==
    IF "steps" \in DOMAIN dry_run.workflow.v THEN dry_run.workflow.v["steps"] ELSE None

\* the op of a step, "" when it has none
OpOf(step) == IF "op" \in DOMAIN step.v THEN step.v["op"] ELSE Str("")

\* what C18 says a step contributes, a field being present when the step has a
\* value other than null under the key of the required-field table
Contribution(step) ==
    LET op == OpOf(step)
        recognized == op \in {Str("goto"), Str("act_cached"), Str("act_template"),
                               Str("extract"), Str("choose"), Str("checkpoint"),
                               Str("wait")}
        required == IF op \in {Str("act_cached"), Str("act_template"), Str("extract")}
                    THEN "targetKey" ELSE "args"
        present == required \in DOMAIN step.v /\ step.v[required] # None
        has_url == /\ "args" \in DOMAIN step.v
                   /\ step.v["args"].t = "dict"
                   /\ "url" \in DOMAIN step.v["args"].v
    IN  IF ~recognized THEN 0
        ELSE (4 * Unit) \div 10
               + (IF present THEN (3 * Unit) \div 10 ELSE 0)
               + (IF "id" \in DOMAIN step.v THEN (2 * Unit) \div 10 ELSE 0)
               + (IF op = Str("goto") /\ ~has_url THEN 0 ELSE Unit \div 10)

\* the value score_dry_run_success returned is the mean over the steps of what
\* each contributes, 0 for an empty or missing step list; a workflow whose only
\* step has op "invalid_op" scores 0, its total_score is below 0.82 and the
\* default harness does not pass it
DryRunAsDescribed ==
        LET steps == ScoredSteps IN
        /\ IF steps.t = "list" /\ Len(steps.v) > 0
           THEN dry_run.out.v =
                    SumSeq([i \in 1..Len(steps.v) |-> Contribution(steps.v[i])])
                        \div Len(steps.v)
           ELSE dry_run.out.v = 0
        /\ (steps.t = "list" /\ Len(steps.v) = 1 /\ OpOf(steps.v[1]) = Str("invalid_op")) =>
              /\ dry_run.out.v = 0
              /\ dry_run.evaluated.v.total_score < 82 * Unit * AvgLcm
              /\ harness_threshold = PROMOTION_THRESHOLD =>
                    dry_run.evaluated.v.passed = FALSE

\* C18: score_dry_run_success gives the mean over the steps of: 0 for a step
\* whose op is not one of the seven recognized ops, whatever other fields it
\* has, and 0.4 + 0.3 * (fraction of required fields present) + 0.2 with an id
\* + 0.1 (for goto only with a url in args) for a recognized one; 0 for an empty
\* or missing step list.  A workflow whose only step has op "invalid_op" scores
\* 0, its total_score is below 0.82 and the default harness does not pass it.
C18_DryRunScoring ==
    dry_run # None => (~dry_run.out.raised /\ DryRunAsDescribed)

\* the same for the calls that return
DryRunReturnsAsDescribed ==
    (dry_run # None /\ ~dry_run.out.raised) => DryRunAsDescribed

\* a workflow of a full goto step and an "invalid_op" step with id, args and
\* targetKey has been scored 0.5
C18_Witness ==
    /\ dry_run # None
    /\ ~dry_run.out.raised
    /\ ScoredSteps.t = "list"
    /\ Len(ScoredSteps.v) = 2
    /\ OpOf(ScoredSteps.v[1]) = Str("goto")
    /\ OpOf(ScoredSteps.v[2]) = Str("invalid_op")
    /\ DOMAIN ScoredSteps.v[2].v = {"op", "id", "args", "targetKey"}
    /\ 2 * dry_run.out.v = Unit

\* the step with its target_key entry moved to the key targetKey
CamelSpelled(step) ==
    Dct([k \in (DOMAIN step.v \ {"target_key"}) \cup {"targetKey"} |->
            IF k = "targetKey" THEN step.v["target_key"] ELSE step.v[k]])

\* C19: an act_cached, act_template or extract step that carries its target key
\* as target_key scores the same in score_dry_run_success as the step that
\* carries it as targetKey.
C19_EitherSpelling ==
    (/\ dry_run # None
     /\ ~dry_run.out.raised
     /\ ScoredSteps.t = "list"
     /\ Len(ScoredSteps.v) = 1
     /\ OpOf(ScoredSteps.v[1]) \in {Str("act_cached"), Str("act_template"), Str("extract")}
     /\ "target_key" \in DOMAIN ScoredSteps.v[1].v
     /\ "targetKey" \notin DOMAIN ScoredSteps.v[1].v)
        => dry_run.out =
              score_dry_run_success(Dct([steps |-> Lst(<<CamelSpelled(ScoredSteps.v[1])>>)]))

-----------------------------------------------------------------------------
(* Properties of the rounds of optimize() (Spec) *)

\* the rounds of the current invocation that ran to their end
CompletedRounds == {n \in DOMAIN round_log[1] : round_log[1][n].completed}

\* C23: in every round whose average score is below the threshold the reflector
\* is called once, with the recipe and the EvalResult of the highest total_score
\* among that round's candidates, the first one on ties; the profile it returns
\* is in the profile store before the next round's generator is called, and is
\* the profile the next round's generator receives.  A round whose average
\* meets the threshold calls no reflector.
C23_ReflectionOrder ==
    /\ \A n \in CompletedRounds :
          LET e == round_log[1][n]
              below == history[1][n].score < harness_threshold
          IN  /\ below <=> e.reflect # None
              /\ below <=> n \in reflected[1]
              /\ below =>
                    \E i \in DOMAIN e.results :
                        /\ \A j \in DOMAIN e.results :
                              e.results[j].total_score <= e.results[i].total_score
                        /\ \A j \in 1..(i - 1) :
                              e.results[j].total_score < e.results[i].total_score
                        /\ e.reflect.eval_result = e.results[i]
                        /\ e.reflect.recipe = e.recipes[i]
              /\ below => e.stored = e.reflect.returned
              /\ (below /\ n + 1 \in DOMAIN round_log[1]) =>
                    round_log[1][n + 1].profile = e.reflect.returned
    /\ (pc[1] = "round" /\ round_log[1] # <<>>) =>
          /\ Last(round_log[1]).reflect # None
          /\ RepoGet(files, cfg[1].pid) = Last(round_log[1]).reflect.returned
          /\ profile[1] = Last(round_log[1]).reflect.returned

\* a round of two candidates with the same total_score has reflected, and a later
\* round whose best candidate is its second has reflected too
C23_Witness ==
    /\ Len(round_log[1]) = 2
    /\ CompletedRounds = {1, 2}
    /\ round_log[1][1].reflect # None
    /\ round_log[1][2].reflect # None
    /\ Len(round_log[1][1].results) = 2
    /\ round_log[1][1].results[1].total_score = round_log[1][1].results[2].total_score
    /\ round_log[1][2].results[1].total_score < round_log[1][2].results[2].total_score

\* the profile carries a non-empty optimization_hints collection
CarriesHints(prof) ==
    /\ "optimization_hints" \in DOMAIN prof.v
    /\ prof.v["optimization_hints"].t = "list"
    /\ prof.v["optimization_hints"].v # <<>>

\* C24: the generator is selected anew in every round: a caller-supplied
\* generator in every round whatever the hints; otherwise the improved generator
\* exactly when the profile handed to the round carries a non-empty
\* optimization_hints collection, and the baseline generator otherwise.  So a
\* run on a hint-free profile uses the baseline in round 1, keeps it while
\* reflections add no hint and uses the improved generator in the round after
\* a reflection that added one.
C24_GeneratorSelection ==
    \A n \in DOMAIN round_log[1] :
        LET e == round_log[1][n] IN
        /\ generator = "custom" => e.generator = "custom"
        /\ generator = "default" =>
              /\ e.generator = (IF CarriesHints(e.profile) THEN "improved" ELSE "default")
              /\ (n = 1 /\ start[1].record # None /\ ~CarriesHints(start[1].record)) =>
                    e.generator = "default"
              /\ (n = 1 /\ start[1].record = None) => e.generator = "default"
              /\ (n > 1 /\ round_log[1][n - 1].generator = "default") =>
                    (e.generator = "improved"
                        <=> CarriesHints(round_log[1][n - 1].reflect.returned))

\* a run on a hint-free profile has used the baseline generator in round 1 and the
\* improved one in round 2
C24_Witness ==
    /\ generator = "default"
    /\ Len(round_log[1]) = 2
    /\ ~CarriesHints(round_log[1][1].profile)
    /\ round_log[1][1].generator = "default"
    /\ round_log[1][2].generator = "improved"

\* history of the current invocation only grows, by one entry at its end
HistoryAppendOnly ==
    [][pc[1] = "round" =>
          \/ history'[1] = history[1]
          \/ /\ Len(history'[1]) = Len(history[1]) + 1
             /\ SubSeq(history'[1], 1, Len(history[1])) = history[1]]_vars

\* on return there is one entry per executed round, numbered from 1, carrying the
\* round's average score, and every entry but the last has a reflection
HistoryOnReturn ==
    pc[1] = "done" =>
        /\ result[1].rounds = Len(history[1])
        /\ Len(history[1]) <= cfg[1].max_rounds
        /\ Len(history[1]) = Len(round_log[1])
        /\ \A i \in DOMAIN history[1] :
              /\ history[1][i].round_num = i
              /\ round_log[1][i].completed
              /\ history[1][i].score * Len(totals[1][i]) = SumSeq(totals[1][i])
              /\ i < Len(history[1]) => history[1][i].reflection # None

\* the last entry has no reflection exactly when the run promoted
LastReflectionAbsentIffPromoted ==
    pc[1] = "done" =>
        ((history[1] # <<>> /\ Last(history[1]).reflection = None)
            <=> result[1].promoted = TRUE)

\* C25: history is an append-only audit log with one entry per executed round:
\* on return rounds = len(history) <= max_rounds, entry i (from 1) has round_num
\* i and the average score of round i, and only the last entry can have an absent
\* reflection, which it has exactly when the run promoted.
C25_AuditLog ==
    /\ HistoryAppendOnly
    /\ []HistoryOnReturn
    /\ []LastReflectionAbsentIffPromoted

\* the same for the runs that execute a round or whose threshold is above 0
AuditLogOfRunsWithRounds ==
    /\ HistoryAppendOnly
    /\ []HistoryOnReturn
    /\ []((cfg[1].max_rounds > 0 \/ harness_threshold > 0)
            => LastReflectionAbsentIffPromoted)

\* a run has returned a reflected round followed by a passing one, promoted
C25_Witness ==
    /\ pc[1] = "done"
    /\ Len(history[1]) = 2
    /\ history[1][1].reflection # None
    /\ history[1][2].reflection = None
    /\ result[1].promoted = TRUE

\* C26: optimize() reads the bank once, at its start; for an empty bank it uses
\* exactly one synthetic spec, which is not written to the task-spec store;
\* every round works on the specs read at the start, and a round that runs to
\* its selection has called the generator and the harness exactly once per task
\* spec, so it has scored at least one candidate and selects among a non-empty
\* set.  A round that an exception cuts short has made at most one call per
\* task spec.
C26_TaskSpecBank ==
    /\ [][bank' = bank]_vars
    /\ [](\A n \in DOMAIN round_log[1] :
            LET e == round_log[1][n] IN
            /\ e.specs = (IF bank = <<>> THEN <<SyntheticSpec>> ELSE bank)
            /\ e.specs = task_specs[1]
            /\ Len(e.specs) >= 1
            /\ e.completed =>
                  /\ e.calls = Len(e.specs)
                  /\ e.evaluated = Len(e.specs)
                  /\ Len(e.recipes) = Len(e.specs)
                  /\ Len(e.results) = Len(e.specs)
                  /\ \A i \in DOMAIN e.results :
                        e.results[i].details.task_spec_id = e.specs[i].v["id"]
            /\ ~e.completed =>
                  /\ e.calls <= Len(e.specs)
                  /\ e.evaluated \in {e.calls - 1, e.calls})

\* a run on an empty bank has completed two rounds on the synthetic spec
C26_Witness ==
    /\ bank = <<>>
    /\ Len(round_log[1]) = 2
    /\ round_log[1][1].completed /\ round_log[1][2].completed
    /\ round_log[1][2].specs = <<SyntheticSpec>>
    /\ round_log[1][2].evaluated = 1

-----------------------------------------------------------------------------
(* Properties of _default_reflector (SpecReflect) *)

\* the hints of a profile, as a sequence
HintsOf(prof) == Get(prof, "optimization_hints", Lst(<<>>)).v

\* some reflected result met the condition
SomeReflected(Weak(_)) == \E i \in DOMAIN reflections.results : Weak(reflections.results[i])

\* C27: after any sequence of default reflections from a duplicate-free hint
\* collection, optimization_hints has no duplicate, contains every hint it had at
\* the start, and has gained ensure_all_schema_fields,
\* validate_op_types_and_required_fields, add_targetKey_and_expect_to_all_steps
\* or reduce_extract_and_choose_steps exactly when schema_validity < 0.8,
\* dry_run_success < 0.8, replay_determinism < 0.8 or token_cost > 0.5 held in
\* some reflected result, and nothing else; id and version are unchanged.
C27_ReflectorHints ==
    reflections # None =>
        LET before == Range(HintsOf(reflections.first))
            hints == HintsOf(reflections.profile)
            after == Range(hints)
            limit == (8 * Unit) \div 10
            half == (5 * Unit) \div 10
            WeakSchema(res) == res.schema_validity < limit
            WeakDryRun(res) == res.dry_run_success < limit
            WeakReplay(res) == res.replay_determinism < limit
            Costly(res) == res.token_cost > half
            \* a hint absent at the start is present now exactly when weak held
            GainedWhen(h, weak) == Str(h) \notin before => (Str(h) \in after <=> weak)
        IN  /\ \A i, j \in DOMAIN hints : i # j => hints[i] # hints[j]
            /\ before \subseteq after
            /\ GainedWhen("ensure_all_schema_fields", SomeReflected(WeakSchema))
            /\ GainedWhen("validate_op_types_and_required_fields",
                          SomeReflected(WeakDryRun))
            /\ GainedWhen("add_targetKey_and_expect_to_all_steps",
                          SomeReflected(WeakReplay))
            /\ GainedWhen("reduce_extract_and_choose_steps", SomeReflected(Costly))
            /\ after \subseteq before \cup
                  {Str("ensure_all_schema_fields"),
                   Str("validate_op_types_and_required_fields"),
                   Str("add_targetKey_and_expect_to_all_steps"),
                   Str("reduce_extract_and_choose_steps")}
            /\ Get(reflections.profile, "id", None) = Get(reflections.first, "id", None)
            /\ Get(reflections.profile, "version", None)
                  = Get(reflections.first, "version", None)
            /\ Has(reflections.profile, "version") <=> Has(reflections.first, "version")

\* a profile with a hint of its own has been reflected on a result weak in its
\* schema and then on one exactly on every limit: it has gained one hint
C27_Witness ==
    /\ reflections # None
    /\ HintsOf(reflections.first) = <<Str("custom_hint")>>
    /\ Len(reflections.results) = 2
    /\ reflections.results[1].schema_validity < (8 * Unit) \div 10
    /\ reflections.results[2].schema_validity = (8 * Unit) \div 10
    /\ reflections.results[2].token_cost = (5 * Unit) \div 10
    /\ Len(HintsOf(reflections.profile)) = 2

-----------------------------------------------------------------------------
(* Properties of the default generators (SpecGenerate) *)

\* the steps of the recipe the improved generator returned
ImprovedSteps == generated.improved.v["workflow"].v["steps"].v

\* the step has a target key: a targetKey that is neither null nor empty
HasTargetKey(step) == Has(step, "targetKey") /\ Truthy(step.v["targetKey"])

\* the step has at least one expectation
HasExpectation(step) ==
    /\ Has(step, "expect")
    /\ step.v["expect"].t = "list"
    /\ step.v["expect"].v # <<>>

\* what C28 says of the recipe the improved generator returned
GeneratedAsDescribed ==
    LET hints == Range(HintsOf(generated.profile))
        add == Str("add_targetKey_and_expect_to_all_steps") \in hints
        reduce == Str("reduce_extract_and_choose_steps") \in hints
        needs_target == {Str("act_cached"), Str("act_template"), Str("extract")}
    IN  /\ add => \A i \in DOMAIN ImprovedSteps :
                    LET step == ImprovedSteps[i]
                        op == Get(step, "op", None)
                    IN  /\ op \in needs_target => HasTargetKey(step)
                        /\ op \in needs_target \cup {Str("goto")} => HasExpectation(step)
        /\ reduce => \A i \in DOMAIN ImprovedSteps :
                        Get(ImprovedSteps[i], "op", None) # Str("choose")
        /\ (~add /\ ~reduce) => generated.improved = generated.baseline

\* C28: for every task spec, procedure steps that omit, null or empty their
\* targetKey or expect included: with the hint add_targetKey_and_expect_to_all_steps
\* every act_cached/act_template/extract step of the improved generator's recipe
\* has a target key and every act_cached/act_template/extract/goto step has at
\* least one expectation; with the hint reduce_extract_and_choose_steps the recipe
\* has no choose step; without these hints the recipe is the baseline generator's.
C28_ImprovedGenerator == generated # None => GeneratedAsDescribed

\* no procedure step of the task spec carries a null or empty targetKey or expect
ProcedureOmitsOrGives ==
    LET procedure == Get(generated.task_spec, "procedure_steps", Lst(<<>>)).v
    IN  \A i \in DOMAIN procedure :
            /\ Has(procedure[i], "targetKey") => Truthy(procedure[i].v["targetKey"])
            /\ Has(procedure[i], "expect") => Truthy(procedure[i].v["expect"])

\* the same for task specs whose procedure steps omit or give targetKey and expect
GeneratedAsDescribedWhenGiven ==
    (generated # None /\ ProcedureOmitsOrGives) => GeneratedAsDescribed

\* with both hints, a procedure of two choose steps and an extract step that omits
\* targetKey and expect has given a recipe of three steps
C28_Witness ==
    /\ generated # None
    /\ Range(HintsOf(generated.profile))
          = {Str("add_targetKey_and_expect_to_all_steps"),
             Str("reduce_extract_and_choose_steps")}
    /\ Len(Get(generated.task_spec, "procedure_steps", Lst(<<>>)).v) = 3
    /\ Len(ImprovedSteps) = 3
    /\ Len(generated.baseline.v["workflow"].v["steps"].v) = 5
    /\ HasTargetKey(ImprovedSteps[2])

-----------------------------------------------------------------------------
(* Properties of ProfilesRepo (SpecRepo) *)

\* C21: promote(id, version) on an existing profile returns "<id>_v<version>"
\* and stores under that id a copy of the current record with version set to
\* the given version and promoted set to true, every other field as in the
\* current record, which is itself left unchanged, as is every other file; on a
\* profile id that does not exist it raises and changes nothing in the store.
C21_Promote ==
    repo_ops.last # None =>
        LET call == repo_ops.last
            source == call.profile_id
            dest == [base |-> source.base, vs |-> source.vs \o <<call.version>>]
            current == call.before[source]
            snapshot == call.after[dest]
        IN  IF source \in DOMAIN call.before
            THEN /\ call.out = Ok([t |-> "str",
                                   v |-> IdStr(source).v
                                           \o <<"_v", IntStr(call.version).v[1]>>])
                 /\ DOMAIN call.after = DOMAIN call.before \cup {dest}
                 /\ DOMAIN snapshot.v = DOMAIN current.v \cup {"version", "promoted"}
                 /\ snapshot.v["version"] = Num(call.version)
                 /\ snapshot.v["promoted"] = Bool(TRUE)
                 /\ \A k \in DOMAIN current.v \ {"version", "promoted"} :
                       snapshot.v[k] = current.v[k]
                 /\ call.after[source] = current
                 /\ \A k \in DOMAIN call.before \ {dest} : call.after[k] = call.before[k]
            ELSE /\ call.out.raised
                 /\ call.out.error.type = "FileNotFoundError"
                 /\ call.after = call.before

\* a record that carries a version field of its own has been promoted as
\* version 2 over a snapshot 2 that was already there
C21_Witness ==
    /\ repo_ops.last # None
    /\ repo_ops.last.profile_id \in DOMAIN repo_ops.last.before
    /\ repo_ops.last.version = 2
    /\ Get(repo_ops.last.before[repo_ops.last.profile_id], "version", None) = Num(7)
    /\ PromotedId(repo_ops.last.profile_id, 2) \in DOMAIN repo_ops.last.before

\* the ids ProfilesRepo.list() returns
Listed == RepoList(files)

\* C22: list() returns exactly the profile ids stored with save() and not deleted
\* since, and none of the copies promote() created: after any sequence of save,
\* promote and delete calls every saved, undeleted id is listed and no promoted
\* copy is.
C22_List ==
    /\ \A profile_id \in repo_ops.live : profile_id \in Listed
    /\ \A k \in repo_ops.copies : k \notin Listed
    /\ Listed \subseteq repo_ops.live

\* the same for the saved ids that do not end in "_v<digits>"
ListOfPlainIds ==
    /\ \A profile_id \in repo_ops.live : profile_id.vs = <<>> => profile_id \in Listed
    /\ \A k \in repo_ops.copies : k \notin Listed
    /\ Listed \subseteq repo_ops.live

\* "a" and "b" are saved, "a" has a promoted copy and a deleted id is gone
C22_Witness ==
    /\ repo_ops.calls = MaxRepoCalls
    /\ repo_ops.live = {KeyA, KeyB}
    /\ repo_ops.copies # {}
    /\ Listed = {KeyA, KeyB}

-----------------------------------------------------------------------------
(* Properties of the job endpoints (SpecJobs) *)

\* the place of a status on the way queued -> running -> (completed | failed)
StatusRank(status) ==
    CASE status = "not_found" -> 0
      [] status = "queued" -> 1
      [] status = "running" -> 2
      [] status \in {"completed", "failed"} -> 3

\* the runs scheduled for request_id among the given tasks
JobsOf(request_id, scheduled) ==
    {i \in DOMAIN scheduled : scheduled[i].request_id = request_id}

\* the statuses reported for request_id move only forward, completed and failed
\* are followed by nothing else, a completed status carries the result of a
\* finished run of that id, and an id never submitted reports not_found
StatusMovesForward(request_id) ==
    LET observed == polls[request_id]
    IN  /\ \A j \in 1..(Len(observed) - 1) :
              /\ StatusRank(observed[j].status) <= StatusRank(observed[j + 1].status)
              /\ observed[j].status \in {"completed", "failed"} =>
                    observed[j + 1].status = observed[j].status
        /\ \A j \in 1..Len(observed) :
              /\ observed[j].status = "completed" =>
                    \E i \in JobsOf(request_id, observed[j].tasks) :
                        /\ observed[j].tasks[i].at = "done"
                        /\ observed[j].tasks[i].out = Ok(observed[j].result)
              /\ JobsOf(request_id, observed[j].tasks) = {} =>
                    observed[j].status = "not_found"

\* C29: for every request id and every interleaving of submissions, background
\* runs and status polls, a second submission under a request id in use
\* included, the status observed for the id moves only forward along
\* queued -> running -> (completed | failed), completed and failed are followed
\* by no other status, a completed status carries that job's own result, and an
\* id never submitted reports not_found.
C29_JobStatus == \A request_id \in Runners : StatusMovesForward(request_id)

\* the same for the request ids that were submitted at most once
JobStatusOfIdsSubmittedOnce ==
    \A request_id \in Runners :
        Cardinality(JobsOf(request_id, tasks)) <= 1 => StatusMovesForward(request_id)

\* a request id was posted a second time while its first run was running, and
\* was polled before, between and after
C29_Witness ==
    \E request_id \in Runners :
        /\ Len(polls[request_id]) = MaxPolls
        /\ polls[request_id][1].status = "not_found"
        /\ polls[request_id][2].status = "running"
        /\ Cardinality(JobsOf(request_id, polls[request_id][2].tasks)) = 1
        /\ Cardinality(JobsOf(request_id, polls[request_id][3].tasks)) = 2

-----------------------------------------------------------------------------
(* The attainable score (SpecEither) *)

\* 0.90 in 1/One: the weights 0.45, 0.25 and 0.20 of the positive terms together
ScoreCeiling == 90 * (One \div 100)

\* every EvalResult the direct calls and the rounds of the run have produced
ResultsProduced ==
    {evals[i].out.v : i \in {j \in DOMAIN evals : ~evals[j].out.raised}}
        \cup UNION {Range(round_log[1][k].results) : k \in DOMAIN round_log[1]}

\* C30: every EvalResult has total_score <= 0.90, below the upper clamp at 1;
\* so with a harness threshold greater than 0.90 evaluate never returns
\* passed = True, and optimize() records no passing round, never promotes and
\* never mints a version, with the default generator or a plugged-in one.
C30_ScoreCeiling ==
    /\ ScoreCeiling < One
    /\ \A res \in ResultsProduced : res.total_score <= ScoreCeiling
    /\ \A k \in DOMAIN history[1] : history[1][k].score <= ScoreCeiling
    /\ best_score[1] <= ScoreCeiling
    /\ harness_threshold > ScoreCeiling =>
          /\ \A res \in ResultsProduced : res.passed = FALSE
          /\ \A k \in DOMAIN history[1] : history[1][k].reflection # None
          /\ pc[1] # "promote"
          /\ pc[1] = "done" => /\ result[1].promoted = FALSE
                               /\ result[1].promoted_version = None
          /\ \A p \in ProfileIds : minted[p] = <<>>
          /\ stamps = <<>>

\* under a threshold above 0.90, a run with a plugged-in generator returned
\* after its rounds with a best score that the default threshold would promote
C30_Witness ==
    /\ harness_threshold > ScoreCeiling
    /\ generator = "custom"
    /\ pc[1] = "done"
    /\ Len(history[1]) = MaxRounds
    /\ best_score[1] >= PROMOTION_THRESHOLD
    /\ \E res \in ResultsProduced : res.total_score >= PROMOTION_THRESHOLD

\* under a threshold above 0.90, direct calls of evaluate have returned a
\* result that the default threshold would pass
DirectCallsNearCeiling ==
    /\ harness_threshold > ScoreCeiling
    /\ Len(evals) = MaxEvals
    /\ \E res \in ResultsProduced : res.total_score >= PROMOTION_THRESHOLD

====
